---- MODULE Spec2Model ----
(***************************************************************************)
(* A model of the status controller of dermotduffy/appdaemon-apps:         *)
(* src/status_controller/status-controller.py (the scheduler thread, the   *)
(* pending-event list, the entity-to-action table and the captured state)  *)
(* and src/status_controller/actions.py (the action classes).              *)
(*                                                                         *)
(* Spec          the scheduler: add(), the controller cycle, the worker    *)
(*               threads of the priority bands, the timers of the actions. *)
(*               Gateway calls succeed.                                    *)
(* SpecFail      Spec, with gateway calls that may raise.                  *)
(* SpecComplete  one action object and callers of complete_action that     *)
(*               interleave at every acquisition of the action's lock.     *)
(* SpecCalls     single calls of the functions that compute a value:       *)
(*               get_event_arguments of config.py and the constructor of   *)
(*               BreathingLightAction, on inputs drawn from bounded sets.  *)
(***************************************************************************)
EXTENDS Integers, Sequences, FiniteSets, TLC

(***************************************************************************)
(* Bounds of the model.                                                    *)
(***************************************************************************)
\* add() is called at most this many times in one behaviour.
MaxAdds == 2
\* The length of a breathing action is at most this many seconds.
MaxLength == 7

\* An event carries at most this many tags in a call of get_event_arguments.
MaxTags == 2
\* A call of a factory gets at most this many entries, of one entity each.
MaxEntries == 3

\* complete_action is called at most this many times in one behaviour of
\* SpecComplete by each caller.
MaxCalls == 2
MaxOutputs == 2

(***************************************************************************)
(* The configuration the controller is constructed with.  Entity ids are   *)
(* Home Assistant ids: a media player (sonos) and a light never share one. *)
(***************************************************************************)
SonosEntities == {"s1", "s2", "s3"}
LightEntities == {"l1", "l2"}
Entities == SonosEntities \cup LightEntities

\* config[underlying_entities][light]: the light "lg" stands for l1 and l2.
underlying_light_entities == [lg |-> {"l1", "l2"}]

\* The matched outputs of each kind of event, every entry with its resolved
\* arguments.  "args" stands for the arguments that are not named here
\* (message, media, ...); an entry that breathes has its length and its
\* breath_length, in seconds.
Config ==
  [doorbell |->
     [force |-> FALSE, sonos |-> <<>>,
      light |-> << [entities |-> <<"l1">>, action |-> "breathe",
                    length |-> 2, breath_length |-> 2,
                    finish_action |-> "restore", priority |-> 10] >>,
      notify |-> << [priority |-> 5] >>, mqtt |-> <<>>],
   manual |->
     [force |-> TRUE, sonos |-> <<>>,
      light |-> << [entities |-> <<"l1">>, action |-> "toggle",
                    finish_action |-> "none", priority |-> 50] >>,
      notify |-> <<>>, mqtt |-> <<>>],
   alarm |->
     [force |-> FALSE, sonos |-> <<>>,
      light |-> << [entities |-> <<"lg", "l2">>, action |-> "turn_on",
                    finish_action |-> "turn_off", priority |-> 60] >>,
      notify |-> <<>>, mqtt |-> << [priority |-> 5] >>],
   announce |->
     [force |-> FALSE,
      sonos |-> << [entities |-> <<"s1", "s3">>, action |-> "speak",
                    chime |-> TRUE, args |-> "a", priority |-> 60] >>,
      light |-> <<>>, notify |-> <<>>, mqtt |-> <<>>],
   music |->
     [force |-> FALSE,
      sonos |-> << [entities |-> <<"s2", "s3">>, action |-> "media_play",
                    chime |-> FALSE, args |-> "m", priority |-> 60] >>,
      light |-> <<>>, notify |-> <<>>, mqtt |-> <<>>],
   page |->
     [force |-> TRUE,
      sonos |-> << [entities |-> <<"s3", "s1">>, action |-> "speak",
                    chime |-> FALSE, args |-> "p", priority |-> 70] >>,
      light |-> <<>>, notify |-> <<>>, mqtt |-> <<>>],
   unmatched |->
     [force |-> FALSE, sonos |-> <<>>, light |-> <<>>, notify |-> <<>>,
      mqtt |-> <<>>]]

EventNames == DOMAIN Config

(***************************************************************************)
(* Helpers on sequences and sets.                                          *)
(***************************************************************************)
Range(s) == {s[i] : i \in DOMAIN s}

RECURSIVE SetMax(_)
SetMax(S) ==
  LET x == CHOOSE y \in S : TRUE
  IN IF S = {x} THEN x
     ELSE LET m == SetMax(S \ {x}) IN IF x > m THEN x ELSE m

\* (mutant) list.remove(x) that removes every element equal to x.
RemoveEvery(s, x) == SelectSeq(s, LAMBDA y : y # x)

\* list.remove(x): the list without the first element equal to x.
RECURSIVE RemoveFirst(_, _)
RemoveFirst(s, x) ==
  IF s = <<>> THEN <<>>
  ELSE IF Head(s) = x THEN Tail(s)
  ELSE <<Head(s)>> \o RemoveFirst(Tail(s), x)

\* (mutant) An insertion that puts x before its equals: a sort that is not
\* stable.
RECURSIVE InsertDescBeforeEquals(_, _)
InsertDescBeforeEquals(s, x) ==
  IF s = <<>> THEN <<x>>
  ELSE IF Head(s).priority > x.priority
       THEN <<Head(s)>> \o InsertDescBeforeEquals(Tail(s), x)
       ELSE <<x>> \o s

\* Insert x into s, sorted by descending priority, after its equals.
RECURSIVE InsertDesc(_, _)
InsertDesc(s, x) ==
  IF s = <<>> THEN <<x>>
  ELSE IF Head(s).priority >= x.priority
       THEN <<Head(s)>> \o InsertDesc(Tail(s), x)
       ELSE <<x>> \o s

\* sorted(s, reverse=True, key=priority): stable, equals keep their order.
RECURSIVE SortedDesc(_)
SortedDesc(s) ==
  IF s = <<>> THEN <<>>
  ELSE InsertDesc(SortedDesc(SubSeq(s, 1, Len(s) - 1)), s[Len(s)])


(***************************************************************************)
(* The state.                                                              *)
(***************************************************************************)
VARIABLES
  pc,                           \* where the controller thread is
  notified,                     \* _cv was notified while the thread waited
  events,                       \* StatusController._events
  todo,                         \* what is left of sorted(self._events) in this pass
  cur,                          \* the event tuple being admitted, or <<>>
  entity_to_action,             \* StatusController._entity_to_action
  captured_global_sonos_state,  \* StatusController._captured_global_sonos_state
  captured_light_state,         \* StatusController._captured_light_state
  actions,                      \* every action object created, by identity
  light,                        \* the gateway: the state of each light
  nadds,                        \* add() calls so far
  nadm,                         \* events admitted so far
  passlog,                      \* during a pass: each entry examined, the table
                                \* it met, whether it was admitted, and the
                                \* unfinished actions killed for it
  lastpass,                     \* the tuples the last finished pass postponed
  gwlog,                        \* what the gateway saw of snapshot and restore
  app_errors,                   \* calls of app.error by _thread_wrap_for_appdaemon
  obj,                          \* SpecComplete: the action object
  calls,                        \* SpecComplete: the calls of complete_action
  started,                      \* SpecComplete: calls started, per caller
  fn_call,                      \* SpecCalls: the function called and its arguments
  fn_result,                    \* SpecCalls: <<what it returned>>, or <<>> before
  holder,                       \* SpecLocks: the thread that holds each lock
  depth,                        \* SpecLocks: how many times it has acquired it
  at,                           \* SpecLocks: each thread's next instruction
  finished,                     \* SpecLocks: _is_finished of each action
  signalled                     \* SpecLocks: _cv notified while the thread waits

svars == <<pc, notified, events, todo, cur, entity_to_action,
           captured_global_sonos_state, captured_light_state, actions, light,
           nadds, nadm, passlog, lastpass, gwlog, app_errors>>
cvars == <<obj, calls, started>>
fvars == <<fn_call, fn_result>>
lvars == <<holder, depth, at, finished, signalled>>
vars == <<svars, cvars, fvars, lvars>>

(***************************************************************************)
(* actions.py: the classes and what they do to the gateway.                *)
(***************************************************************************)
\* LIGHT_ACTION_MAP and SONOS_ACTION_MAP: the class of an action name.
LIGHT_ACTION_MAP(name) ==
  CASE name \in {"turn_on", "turn_off", "toggle"} -> "SimpleLightAction"
    [] name = "breathe" -> "BreathingLightAction"
    [] OTHER -> "None"

SONOS_ACTION_MAP(name) ==
  CASE name = "speak" -> "SonosTTSAction"
    [] name = "media_play" -> "SonosPlayMediaAction"
    [] OTHER -> "None"

SonosKinds == {"SonosTTSAction", "SonosPlayMediaAction"}
LightKinds == {"SimpleLightAction", "BreathingLightAction"}
ServiceKinds == {"NotifyAction", "MQTTAction"}

\* The lights an entity id of the light domain stands for.
Underlying(entity_id) ==
  IF entity_id \in DOMAIN underlying_light_entities
  THEN underlying_light_entities[entity_id]
  ELSE {entity_id}

\* app.get_state(entity_id): a light that stands for several is on when one is.
get_state(L, entity_id) ==
  IF \E e \in Underlying(entity_id) : L[e] = "on" THEN "on" ELSE "off"

\* app.turn_on / app.turn_off on an entity id.
GwSet(L, entity_id, v) ==
  [e \in DOMAIN L |-> IF e \in Underlying(entity_id) THEN v ELSE L[e]]

\* LightActionBase.capture_state
capture_state(L, e) == L[e]

\* LightActionBase._restore_state: every entity of ents back to prior_state.
restore_state(L, prior_state, ents) ==
  [e \in DOMAIN L |-> IF e \in ents THEN prior_state[e] ELSE L[e]]

\* A new action object, as the constructors leave it.
NewAction(kind, adm, priority, entity_id, ents, primary, action, finish_action, chime, prior) ==
  [kind |-> kind, adm |-> adm, priority |-> priority, entity_id |-> entity_id,
   entities |-> ents, primary |-> primary, action |-> action,
   finish_action |-> finish_action, chime |-> chime,
   prior_state |-> prior, is_finished |-> FALSE, phase |-> "created",
   timer |-> "none", beats_remaining |-> 0, callbacks |-> 0,
   reporting |-> FALSE, ncalls |-> 0, raised |-> FALSE]

\* (mutant) SonosAction._is_primary that holds of every member.
is_primary_always(a) == TRUE

\* SonosAction._is_primary
is_primary(a) == a.entity_id = a.primary

\* (mutant) LightActionBase.complete_action without lines 343-344: a forced
\* completion applies the finish policy to every entity of prior_state.
FinishPolicyTargetsAll(a, hard_kill_entities) ==
  IF hard_kill_entities = {}
  THEN Underlying(a.entity_id)
  ELSE DOMAIN a.prior_state

\* LightActionBase.complete_action, lines 333-350: the finish policy.  Not
\* forced, it acts on the action's own entity id (restore: on every entity of
\* prior_state); forced, on each entity of prior_state outside hard_kill_entities.
FinishPolicyTargets(a, hard_kill_entities) ==
  IF hard_kill_entities = {}
  THEN Underlying(a.entity_id)
  ELSE DOMAIN a.prior_state \ hard_kill_entities

FinishPolicy(a, hard_kill_entities, L) ==
  LET T == FinishPolicyTargets(a, hard_kill_entities)
  IN CASE a.finish_action = "turn_on" ->
            [e \in DOMAIN L |-> IF e \in T THEN "on" ELSE L[e]]
       [] a.finish_action = "turn_off" ->
            [e \in DOMAIN L |-> IF e \in T THEN "off" ELSE L[e]]
       [] a.finish_action = "restore" ->
            restore_state(L, a.prior_state,
                          IF hard_kill_entities = {} THEN DOMAIN a.prior_state ELSE T)
       [] OTHER -> L

\* The gateway calls the finish policy makes.
FinishPolicyCalls(a, hard_kill_entities) ==
  CASE a.finish_action \in {"turn_on", "turn_off"} ->
         IF hard_kill_entities = {} THEN 1
         ELSE Cardinality(FinishPolicyTargets(a, hard_kill_entities))
    [] a.finish_action = "restore" ->
         IF hard_kill_entities = {} THEN Cardinality(DOMAIN a.prior_state)
         ELSE Cardinality(FinishPolicyTargets(a, hard_kill_entities))
    [] OTHER -> 0

\* complete_action(hard_kill_entities) of every class, run to its end with no
\* other thread in between: the action after it.  in_controller: the caller
\* is the controller thread, which holds _cv, so that _report_action_finished
\* returns at once; any other caller has to take _cv first.
CompleteObj(a, hard_kill_entities, in_controller) ==
  IF a.is_finished THEN a
  ELSE [a EXCEPT !.is_finished = TRUE,
                 !.timer = "none",
                 !.callbacks = @ + 1,
                 !.reporting = ~in_controller,
                 !.ncalls = @ +
                    (IF a.kind \in LightKinds
                     THEN FinishPolicyCalls(a, hard_kill_entities)
                     ELSE IF a.kind \in SonosKinds /\ is_primary(a)
                             /\ hard_kill_entities # {}
                     THEN 1 ELSE 0)]

\* What complete_action does to the lights.
CompleteLight(a, hard_kill_entities, L) ==
  IF a.is_finished \/ a.kind \notin LightKinds THEN L
  ELSE FinishPolicy(a, hard_kill_entities, L)

(***************************************************************************)
(* status-controller.py: the action factory.                               *)
(***************************************************************************)
\* The elements of s at the indexes in I, in order.
RECURSIVE PickUpTo(_, _, _)
PickUpTo(s, I, n) ==
  IF n = 0 THEN <<>>
  ELSE PickUpTo(s, I, n - 1) \o (IF n \in I THEN <<s[n]>> ELSE <<>>)

Pick(s, I) == PickUpTo(s, I, Len(s))

\* (entity_id, arguments) for every entity of every entry of a domain, in
\* configuration order.
RECURSIVE EntityPairs(_)
EntityPairs(entries) ==
  IF entries = <<>> THEN <<>>
  ELSE LET e == Head(entries)
       IN [i \in 1..Len(e.entities) |->
             [entity_id |-> e.entities[i], arguments |-> e,
              priority |-> e.priority]]
          \o EntityPairs(Tail(entries))

\* (mutant) _get_entities_involved_in_outputs without lines 290-293: a light
\* that stands for several is taken for one entity.
get_entities_not_underlying(outputs) ==
  {p.entity_id : p \in Range(EntityPairs(outputs.sonos))}
  \cup {p.entity_id : p \in Range(EntityPairs(outputs.light))}

\* _get_entities_involved_in_outputs
get_entities_involved_in_outputs(outputs) ==
  {p.entity_id : p \in Range(EntityPairs(outputs.sonos))}
  \cup UNION {Underlying(p.entity_id) : p \in Range(EntityPairs(outputs.light))}

\* (mutant) _filter_sonos_args that also leaves out the arguments of the
\* service call.
filter_sonos_args_no_args(arguments) ==
  [action |-> arguments.action, chime |-> arguments.chime]

\* _filter_sonos_args: the arguments without SONOS_GROUP_IGNORE_KEYS.
filter_sonos_args(arguments) ==
  [action |-> arguments.action, chime |-> arguments.chime,
   args |-> arguments.args]

\* (mutant) _get_sonos_primary without the sort: the first member.
get_sonos_primary_unsorted(group_entities) == group_entities[1].entity_id

\* _get_sonos_primary
get_sonos_primary(group_entities) == SortedDesc(group_entities)[1].entity_id

\* (mutant) _create_sonos_actions without lines 322-324: an entity is taken
\* at every visit.
SonosVisitsAll(outputs) == EntityPairs(outputs.sonos)

\* _create_sonos_actions, lines 312-326: sonos_groups as the list of its
\* (entity_id, arguments) pairs, each entity at its first visit only.
SonosVisits(outputs) ==
  LET pairs == EntityPairs(outputs.sonos)
  IN Pick(pairs, {i \in DOMAIN pairs :
                    \A j \in 1..(i - 1) : pairs[j].entity_id # pairs[i].entity_id})

\* The group keys in the order the dict sonos_groups got them.
SonosGroupKeys(visits) ==
  LET keys == [i \in DOMAIN visits |-> filter_sonos_args(visits[i].arguments)]
  IN Pick(keys, {i \in DOMAIN keys : \A j \in 1..(i - 1) : keys[j] # keys[i]})

SonosGroup(visits, key) ==
  LET InGroup(p) == filter_sonos_args(p.arguments) = key
  IN SelectSeq(visits, InGroup)

\* _create_sonos_actions, lines 330-341: the actions of the groups from the
\* n-th on.
RECURSIVE SonosGroupActions(_, _, _, _)
SonosGroupActions(visits, keys, n, adm) ==
  IF n > Len(keys) THEN <<>>
  ELSE LET group == SonosGroup(visits, keys[n])
           primary == get_sonos_primary(group)
           made == SelectSeq(
                     [i \in DOMAIN group |->
                        NewAction(SONOS_ACTION_MAP(group[i].arguments.action), adm,
                                  group[i].priority, group[i].entity_id,
                                  {group[i].entity_id}, primary,
                                  group[i].arguments.action, "none",
                                  group[i].arguments.chime, <<>>)],
                     LAMBDA a : a.kind # "None")
       IN made \o SonosGroupActions(visits, keys, n + 1, adm)

create_sonos_actions(outputs, adm) ==
  LET visits == SonosVisits(outputs)
  IN SonosGroupActions(visits, SonosGroupKeys(visits), 1, adm)

\* (mutant) round() that rounds a half up.
round_half_up(n, d) ==
  IF 2 * (n % d) < d THEN n \div d ELSE (n \div d) + 1

\* Python's round(n / d) for integers n >= 0 and d > 0: the nearest integer,
\* and the even one of the two when n / d is half-way between them.
round(n, d) ==
  LET q == n \div d
      r == n % d
  IN IF 2 * r < d THEN q
     ELSE IF 2 * r > d THEN q + 1
     ELSE IF q % 2 = 0 THEN q ELSE q + 1

\* (mutant) BreathingLightAction.__init__ without lines 413-414: no beat is
\* added for a light that is on.
beats_remaining_even(L, entity_id, length, breath_length) ==
  2 * round(length, breath_length)

\* BreathingLightAction.__init__: two beats a breath, and one more to turn
\* off a light that is on.
beats_remaining(L, entity_id, length, breath_length) ==
  2 * round(length, breath_length)
  + (IF get_state(L, entity_id) = "on" THEN 1 ELSE 0)

\* (mutant) _create_light_actions without the test of line 381: the state is
\* captured for every action.
captured_or_fresh_always(captured, L, e) == capture_state(L, e)

\* _create_light_actions, lines 380-383: the captured state of an entity is
\* the one held, or else the state of the light now.
captured_or_fresh(captured, L, e) ==
  IF e \in DOMAIN captured THEN captured[e] ELSE capture_state(L, e)

\* _create_light_actions, lines 360-397, for the pairs left: st is
\* (visited_entity_ids, _captured_light_state, light_actions).
RECURSIVE LightFactory(_, _, _, _)
LightFactory(pairs, st, adm, L) ==
  IF pairs = <<>> THEN st
  ELSE
    LET p == Head(pairs)
        underlying_entity_ids == Underlying(p.entity_id)
        kind == LIGHT_ACTION_MAP(p.arguments.action)
        captured ==
          [e \in DOMAIN st.captured \cup underlying_entity_ids |->
             captured_or_fresh(st.captured, L, e)]
        state_to_register == [e \in underlying_entity_ids |-> captured[e]]
        new == NewAction(kind, adm, p.priority, p.entity_id,
                         underlying_entity_ids, "", p.arguments.action,
                         p.arguments.finish_action, FALSE, state_to_register)
        action ==
          IF kind = "BreathingLightAction"
          THEN [new EXCEPT !.beats_remaining =
                             beats_remaining(L, p.entity_id,
                                             p.arguments.length,
                                             p.arguments.breath_length)]
          ELSE new
        st2 ==
          IF st.visited \cap underlying_entity_ids # {} THEN st
          ELSE IF kind = "None"
          THEN [st EXCEPT !.visited = @ \cup underlying_entity_ids]
          ELSE [visited |-> st.visited \cup underlying_entity_ids,
                captured |-> captured,
                made |-> Append(st.made, action)]
    IN LightFactory(Tail(pairs), st2, adm, L)

create_light_actions(outputs, adm, captured, L) ==
  LightFactory(EntityPairs(outputs.light),
               [visited |-> {}, captured |-> captured, made |-> <<>>], adm, L)

\* _create_notify_actions and _create_mqtt_actions
create_service_actions(entries, kind, adm) ==
  [i \in DOMAIN entries |->
     NewAction(kind, adm, entries[i].priority, "", {}, "", "call", "none",
               FALSE, <<>>)]

\* self._entity_to_action[entity] = action, for the actions made, the first
\* of which gets the identity base + 1.
RECURSIVE Register(_, _, _, _)
Register(table, made, n, base) ==
  IF n > Len(made) THEN table
  ELSE Register([e \in DOMAIN table \cup made[n].entities |->
                   IF e \in made[n].entities THEN base + n ELSE table[e]],
                made, n + 1, base)

(***************************************************************************)
(* status-controller.py: add() and the controller cycle.                   *)
(***************************************************************************)
\* (mutant) add() with the set of priorities starting from the default
\* priority, 0, instead of empty.
EntryPrioritiesOrDefault(outputs) ==
  {0}
  \cup {outputs.sonos[i].priority : i \in DOMAIN outputs.sonos}
  \cup {outputs.light[i].priority : i \in DOMAIN outputs.light}
  \cup {outputs.notify[i].priority : i \in DOMAIN outputs.notify}
  \cup {outputs.mqtt[i].priority : i \in DOMAIN outputs.mqtt}

\* add(), lines 183-198: the priorities of every entry of every domain.
EntryPriorities(outputs) ==
  {outputs.sonos[i].priority : i \in DOMAIN outputs.sonos}
  \cup {outputs.light[i].priority : i \in DOMAIN outputs.light}
  \cup {outputs.notify[i].priority : i \in DOMAIN outputs.notify}
  \cup {outputs.mqtt[i].priority : i \in DOMAIN outputs.mqtt}

\* add(event).  It takes _cv, which the controller thread holds except while
\* it waits and gives up when it ends; a notify() that finds no waiting
\* thread is lost.
Add(ev) ==
  /\ nadds < MaxAdds
  /\ pc \in {"init", "waiting", "stopped"}
  /\ nadds' = nadds + 1
  /\ LET priorities == EntryPriorities(Config[ev])
     IN IF priorities # {}
        THEN /\ events' = Append(events,
                            [priority |-> SetMax(priorities),
                             force |-> Config[ev].force, event |-> ev])
             /\ notified' = (notified \/ pc = "waiting")
        ELSE UNCHANGED <<events, notified>>
  /\ UNCHANGED <<pc, todo, cur, entity_to_action, captured_global_sonos_state,
                 captured_light_state, actions, light, nadm, passlog, lastpass, gwlog,
                 app_errors, cvars, fvars, lvars>>

\* run(): the thread takes _cv and waits for the first time.
StartWait ==
  /\ pc = "init"
  /\ pc' = "waiting"
  /\ UNCHANGED <<notified, events, todo, cur, entity_to_action,
                 captured_global_sonos_state, captured_light_state, actions,
                 light, nadds, nadm, passlog, lastpass, gwlog, app_errors, cvars, fvars, lvars>>

\* (mutant) _remove_actions that deletes nothing.
remove_actions_nothing(table, actions_to_remove) == table

\* (mutant) _remove_actions that deletes one key of those to delete.
remove_actions_one_key(table, actions_to_remove) ==
  LET keys == {k \in DOMAIN table : table[k] \in actions_to_remove}
  IN IF keys = {} THEN table
     ELSE [e \in DOMAIN table \ {CHOOSE k \in keys : TRUE} |-> table[e]]

\* _remove_actions
remove_actions(table, actions_to_remove) ==
  [e \in {k \in DOMAIN table : table[k] \notin actions_to_remove} |-> table[e]]

\* (mutant) _remove_finished_actions that removes nothing.
remove_finished_actions_never(table, acts) == table

\* _remove_finished_actions
remove_finished_actions(table, acts) ==
  remove_actions(table, {table[e] : e \in {k \in DOMAIN table :
                                            acts[table[k]].is_finished}})

\* The tuples a pass left queued (line 154), in the order it examined them.
PostponedTuples(log) ==
  LET kept == SelectSeq(log, LAMBDA entry : entry.outcome = "postponed")
  IN  [n \in DOMAIN kept |->
         [priority |-> kept[n].priority, force |-> kept[n].force,
          event |-> kept[n].event]]

\* _run_controller_cycle, lines 123-133: the thread wakes, drops the finished
\* actions and sorts the events.
Wake ==
  /\ pc = "waiting"
  /\ notified
  /\ pc' = "pass"
  /\ notified' = FALSE
  /\ entity_to_action' = remove_finished_actions(entity_to_action, actions)
  /\ todo' = SortedDesc(events)
  /\ UNCHANGED <<events, cur, captured_global_sonos_state,
                 captured_light_state, actions, light, nadds, nadm, passlog,
                 lastpass, gwlog, app_errors, cvars, fvars, lvars>>

\* _kill_actions_on_entities, lines 99-102
actions_to_kill(table, entities) ==
  {table[e] : e \in entities \cap DOMAIN table}

\* (mutant) _kill_actions_on_entities without lines 103-104: the actions are
\* removed from the table and not completed.
KillActionsNotCompleted(acts, kill, entities) == acts

\* _kill_actions_on_entities, lines 103-104: complete_action of each action
\* to kill, by the controller thread.
KillActions(acts, kill, entities) ==
  [i \in DOMAIN acts |->
     IF i \in kill THEN CompleteObj(acts[i], entities, TRUE) ELSE acts[i]]

RECURSIVE KillLights(_, _, _, _)
KillLights(acts, kill, entities, L) ==
  IF kill = {} THEN L
  ELSE LET i == CHOOSE k \in kill : TRUE
       IN KillLights(acts, kill \ {i}, entities,
                     CompleteLight(acts[i], entities, L))

\* (mutant) lines 141-144 with the whole table for the overlap: an entry is
\* contended whenever any entity is held.
overlap_with_any(entities, table) == DOMAIN table

\* _run_controller_cycle, lines 141-142
overlap(entities, table) == entities \cap DOMAIN table

\* _run_controller_cycle, lines 138-154: one entry of the sorted events is
\* examined; a contended one is postponed, or its contenders are killed.
Examine ==
  /\ pc = "pass"
  /\ cur = <<>>
  /\ todo # <<>>
  /\ LET event_tpl == Head(todo)
         entities_in_outputs ==
           get_entities_involved_in_outputs(Config[event_tpl.event])
         overlapping_entities ==
           overlap(entities_in_outputs, entity_to_action)
         kill == actions_to_kill(entity_to_action, entities_in_outputs)
         entry == [event |-> event_tpl.event, priority |-> event_tpl.priority,
                   force |-> event_tpl.force, table |-> entity_to_action,
                   adm |-> nadm + 1, outcome |-> "admitted", killed |-> {}]
     IN /\ todo' = Tail(todo)
        /\ IF overlapping_entities # {} /\ event_tpl.force
           THEN /\ actions' = KillActions(actions, kill, entities_in_outputs)
                /\ light' = KillLights(actions, kill, entities_in_outputs, light)
                /\ entity_to_action' = remove_actions(entity_to_action, kill)
                /\ cur' = <<event_tpl>>
                /\ passlog' = Append(passlog,
                     [entry EXCEPT !.killed =
                        {k \in kill : ~actions[k].is_finished}])
           ELSE IF overlapping_entities # {}
           THEN /\ cur' = <<>>
                /\ passlog' = Append(passlog,
                     [entry EXCEPT !.outcome = "postponed", !.adm = 0])
                /\ UNCHANGED <<actions, light, entity_to_action>>
           ELSE /\ cur' = <<event_tpl>>
                /\ passlog' = Append(passlog, entry)
                /\ UNCHANGED <<actions, light, entity_to_action>>
  /\ UNCHANGED <<pc, notified, events, captured_global_sonos_state,
                 captured_light_state, nadds, nadm, lastpass, gwlog,
                 app_errors, cvars, fvars, lvars>>

\* (mutant) _process_single_event, line 245, without the test of the flag.
capture_needed_unheld(made, captured) ==
  \E i \in DOMAIN made : made[i].kind \in SonosKinds

\* _process_single_event, line 245: a global snapshot is to be captured.
capture_needed(made, captured) ==
  (\E i \in DOMAIN made : made[i].kind \in SonosKinds) /\ ~captured

\* _run_controller_cycle, lines 156-157 and _process_single_event: the entry
\* leaves the events, its actions are created and registered, the global
\* sonos state is captured, and one thread per priority band is started.
Process ==
  /\ pc = "pass"
  /\ cur # <<>>
  /\ LET event_tpl == cur[1]
         outputs == Config[event_tpl.event]
         adm == nadm + 1
         sonos_actions == create_sonos_actions(outputs, adm)
         lf == create_light_actions(outputs, adm, captured_light_state, light)
         executable_actions ==
           sonos_actions \o lf.made
           \o create_service_actions(outputs.notify, "NotifyAction", adm)
           \o create_service_actions(outputs.mqtt, "MQTTAction", adm)
     IN /\ events' = RemoveFirst(events, event_tpl)
        /\ actions' = actions \o executable_actions
        /\ entity_to_action' =
             Register(entity_to_action, executable_actions, 1, Len(actions))
        /\ captured_light_state' = lf.captured
        /\ IF capture_needed(executable_actions, captured_global_sonos_state)
           THEN /\ captured_global_sonos_state' = TRUE
                /\ gwlog' = Append(gwlog, "snapshot")
           ELSE UNCHANGED <<captured_global_sonos_state, gwlog>>
  /\ nadm' = nadm + 1
  /\ cur' = <<>>
  /\ UNCHANGED <<pc, notified, todo, light, nadds, passlog, lastpass, app_errors, cvars, fvars, lvars>>

\* _is_sonos_action_in_flight
is_sonos_action_in_flight(table, acts) ==
  \E e \in DOMAIN table : acts[table[e]].kind \in SonosKinds

\* _run_controller_cycle, lines 162-163
restore_needed(captured, table, acts) ==
  captured /\ ~is_sonos_action_in_flight(table, acts)

\* (mutant) _run_controller_cycle without lines 171-174.
drop_light_state_never(captured, table) == captured

\* _run_controller_cycle, lines 171-174
drop_light_state(captured, table) ==
  [e \in DOMAIN captured \cap DOMAIN table |-> captured[e]]

\* _run_controller_cycle, lines 159-174 and back to line 123: the global
\* sonos state is restored, captured light state is dropped, the thread waits.
EndPass ==
  /\ pc = "pass"
  /\ cur = <<>>
  /\ todo = <<>>
  /\ IF restore_needed(captured_global_sonos_state, entity_to_action, actions)
     THEN /\ captured_global_sonos_state' = FALSE
          /\ gwlog' = Append(gwlog, "restore")
     ELSE UNCHANGED <<captured_global_sonos_state, gwlog>>
  /\ captured_light_state' =
       drop_light_state(captured_light_state, entity_to_action)
  /\ pc' = "waiting"
  /\ passlog' = <<>>
  /\ lastpass' = PostponedTuples(passlog)
  /\ UNCHANGED <<notified, events, todo, cur, entity_to_action, actions, light,
                 nadds, nadm, app_errors, cvars, fvars, lvars>>

(***************************************************************************)
(* The threads of the actions: the workers of _parallel_execute_actions,   *)
(* the timers of the gateway, _report_action_finished.                     *)
(***************************************************************************)
\* (mutant) _parallel_execute_actions without the join of line 281: a worker
\* waits for no other.
BandAlone(i) == {i}

\* The actions a worker of _parallel_execute_actions runs with action i: the
\* band of one priority of one event.
Band(i) ==
  {j \in DOMAIN actions : actions[j].adm = actions[i].adm
                          /\ actions[j].priority = actions[i].priority}

\* prepare() of each class: the gateway calls it makes.
PrepareCalls(a) ==
  IF a.kind \in SonosKinds /\ ~a.is_finished
  THEN IF is_primary(a) THEN 1 ELSE 2
  ELSE 0

\* _parallel_execute_actions, call = 'prepare'
Prepare(i) ==
  /\ actions[i].phase = "created"
  /\ actions' = [actions EXCEPT ![i].phase = "prepared",
                                ![i].ncalls = @ + PrepareCalls(actions[i])]
  /\ UNCHANGED <<pc, notified, events, todo, cur, entity_to_action,
                 captured_global_sonos_state, captured_light_state, light,
                 nadds, nadm, passlog, lastpass, gwlog, app_errors, cvars, fvars, lvars>>

\* TimedActionBase._schedule_action_complete
schedule_action_complete(a) ==
  IF a.is_finished THEN a ELSE [a EXCEPT !.timer = "complete"]

\* SimpleLightAction.action, lines 389-394: what it does to the lights.
SimpleLightAct(a, L) ==
  IF a.is_finished THEN L
  ELSE CASE a.action = "turn_on" -> GwSet(L, a.entity_id, "on")
         [] a.action = "turn_off" -> GwSet(L, a.entity_id, "off")
         [] a.action = "toggle" ->
              GwSet(L, a.entity_id,
                    IF get_state(L, a.entity_id) = "on" THEN "off" ELSE "on")
         [] OTHER -> L

\* One gateway call of an action that is not finished.
GuardedCall(a) == IF a.is_finished THEN a ELSE [a EXCEPT !.ncalls = @ + 1]

\* SonosTTSAction._action_speak
action_speak(a) ==
  IF a.is_finished THEN a ELSE schedule_action_complete(GuardedCall(a))

\* SonosTTSAction._action_chime
action_chime(a) ==
  IF a.is_finished THEN a ELSE [GuardedCall(a) EXCEPT !.timer = "speak"]

\* action() of each class: the action object after it.
ActObj(a) ==
  CASE a.kind = "SimpleLightAction" ->
         schedule_action_complete(GuardedCall(a))
    [] a.kind = "SonosTTSAction" ->
         IF ~is_primary(a) THEN CompleteObj(a, {}, FALSE)
         ELSE IF a.chime THEN action_chime(a) ELSE action_speak(a)
    [] a.kind = "SonosPlayMediaAction" ->
         IF ~is_primary(a) THEN a
         ELSE schedule_action_complete(GuardedCall(a))
    [] a.kind = "BreathingLightAction" ->
         IF a.is_finished THEN a ELSE [a EXCEPT !.timer = "breathe"]
    [] a.kind \in ServiceKinds -> GuardedCall(a)
    [] OTHER -> a

\* (mutant) _parallel_execute_actions that starts the workers of 'action'
\* with those of 'prepare': action() may run on an action not prepared.
ActUnprepared(i) ==
  /\ actions[i].phase \in {"created", "prepared"}
  /\ actions' = [actions EXCEPT ![i] = [ActObj(actions[i]) EXCEPT !.phase = "acted"]]
  /\ light' = IF actions[i].kind = "SimpleLightAction"
              THEN SimpleLightAct(actions[i], light) ELSE light
  /\ UNCHANGED <<pc, notified, events, todo, cur, entity_to_action,
                 captured_global_sonos_state, captured_light_state,
                 nadds, nadm, passlog, lastpass, gwlog, app_errors, cvars, fvars, lvars>>

\* _parallel_execute_actions, call = 'action': the workers of 'prepare' were
\* joined before.
Act(i) ==
  /\ actions[i].phase = "prepared"
  /\ \A j \in Band(i) : actions[j].phase # "created"
  /\ actions' = [actions EXCEPT ![i] = [ActObj(actions[i]) EXCEPT !.phase = "acted"]]
  /\ light' = IF actions[i].kind = "SimpleLightAction"
              THEN SimpleLightAct(actions[i], light) ELSE light
  /\ UNCHANGED <<pc, notified, events, todo, cur, entity_to_action,
                 captured_global_sonos_state, captured_light_state,
                 nadds, nadm, passlog, lastpass, gwlog, app_errors, cvars, fvars, lvars>>

\* BreathingLightAction._breathe: a beat toggles the light; with no beat
\* left the action completes itself.
breathe(a) ==
  IF a.is_finished THEN a
  ELSE IF a.beats_remaining <= 0 THEN CompleteObj(a, {}, FALSE)
  ELSE [a EXCEPT !.beats_remaining = @ - 1, !.ncalls = @ + 1]

BreatheLight(a, L) ==
  IF a.is_finished THEN L
  ELSE IF a.beats_remaining <= 0 THEN CompleteLight(a, {}, L)
  ELSE GwSet(L, a.entity_id,
             IF get_state(L, a.entity_id) = "on" THEN "off" ELSE "on")

\* The gateway runs the callback of a timer: complete_action with nothing to
\* kill, _action_speak after the chime, or _breathe.
TimerFire(i) ==
  /\ actions[i].timer # "none"
  /\ CASE actions[i].timer = "speak" ->
            /\ actions' = [actions EXCEPT
                             ![i] = action_speak([@ EXCEPT !.timer = "none"])]
            /\ light' = light
       [] actions[i].timer = "breathe" ->
            /\ actions' = [actions EXCEPT ![i] = breathe(@)]
            /\ light' = BreatheLight(actions[i], light)
       [] OTHER ->
            /\ actions' = [actions EXCEPT ![i] = CompleteObj(@, {}, FALSE)]
            /\ light' = CompleteLight(actions[i], {}, light)
  /\ UNCHANGED <<pc, notified, events, todo, cur, entity_to_action,
                 captured_global_sonos_state, captured_light_state,
                 nadds, nadm, passlog, lastpass, gwlog, app_errors, cvars, fvars, lvars>>

\* (mutant) _report_action_finished that also deletes the keys of the
\* finished action from _entity_to_action.
ReportFinishedRemoving(i) ==
  /\ actions[i].reporting
  /\ pc \in {"waiting", "stopped"}
  /\ actions' = [actions EXCEPT ![i].reporting = FALSE]
  /\ notified' = (notified \/ pc = "waiting")
  /\ entity_to_action' = remove_actions(entity_to_action, {i})
  /\ UNCHANGED <<pc, events, todo, cur,
                 captured_global_sonos_state, captured_light_state, light,
                 nadds, nadm, passlog, lastpass, gwlog, app_errors, cvars, fvars, lvars>>

\* _report_action_finished, called by a thread other than the controller's:
\* it gets _cv once the controller thread waits or has ended, and notifies.
ReportFinished(i) ==
  /\ actions[i].reporting
  /\ pc \in {"waiting", "stopped"}
  /\ actions' = [actions EXCEPT ![i].reporting = FALSE]
  /\ notified' = (notified \/ pc = "waiting")
  /\ UNCHANGED <<pc, events, todo, cur, entity_to_action,
                 captured_global_sonos_state, captured_light_state, light,
                 nadds, nadm, passlog, lastpass, gwlog, app_errors, cvars, fvars, lvars>>

(***************************************************************************)
(* The scheduler.                                                          *)
(***************************************************************************)
InitScheduler ==
  /\ pc = "init"
  /\ notified = FALSE
  /\ events = <<>>
  /\ todo = <<>>
  /\ cur = <<>>
  /\ entity_to_action = <<>>
  /\ captured_global_sonos_state = FALSE
  /\ captured_light_state = <<>>
  /\ actions = <<>>
  /\ light \in [LightEntities -> {"on", "off"}]
  /\ nadds = 0
  /\ nadm = 0
  /\ passlog = <<>>
  /\ lastpass = <<>>
  /\ gwlog = <<>>
  /\ app_errors = 0

InitNoObject ==
  /\ obj = <<>>
  /\ calls = <<>>
  /\ started = <<>>

InitNoCall ==
  /\ fn_call = <<>>
  /\ fn_result = <<>>

InitNoLocks ==
  /\ holder = <<>>
  /\ depth = <<>>
  /\ at = <<>>
  /\ finished = <<>>
  /\ signalled = FALSE

Init == InitScheduler /\ InitNoObject /\ InitNoCall /\ InitNoLocks

Next ==
  \/ \E ev \in EventNames : Add(ev)
  \/ StartWait
  \/ Wake
  \/ Examine
  \/ Process
  \/ EndPass
  \/ \E i \in DOMAIN actions : Prepare(i)
  \/ \E i \in DOMAIN actions : Act(i)
  \/ \E i \in DOMAIN actions : TimerFire(i)
  \/ \E i \in DOMAIN actions : ReportFinished(i)

Spec == Init /\ [][Next]_vars

(***************************************************************************)
(* The scheduler with a gateway whose calls may raise.  An exception       *)
(* leaves prepare() or action() at the call that raised; the worker thread *)
(* hands it to app.error (_thread_wrap_for_appdaemon).  An exception in a  *)
(* timer callback leaves the callback; the timer has fired.                *)
(***************************************************************************)
\* prepare() makes a gateway call that can raise.
PrepareCanRaise(a) == PrepareCalls(a) > 0

\* action() makes a gateway call that can raise.
ActCanRaise(a) ==
  /\ ~a.is_finished
  /\ \/ a.kind \in {"SimpleLightAction"} \cup ServiceKinds
     \/ a.kind \in SonosKinds /\ is_primary(a)

\* The callback of the pending timer makes a gateway call that can raise:
\* the text-to-speech call, or a call of the finish policy.
TimerCanRaise(a) ==
  /\ ~a.is_finished
  /\ \/ a.timer = "speak"
     \/ a.timer = "complete" /\ a.kind \in LightKinds
        /\ FinishPolicyCalls(a, {}) > 0

\* SonosAction.prepare raises at its first gateway call.
PrepareRaises(i) ==
  /\ actions[i].phase = "created"
  /\ PrepareCanRaise(actions[i])
  /\ actions' = [actions EXCEPT ![i].phase = "prepared", ![i].raised = TRUE]
  /\ app_errors' = app_errors + 1
  /\ UNCHANGED <<pc, notified, events, todo, cur, entity_to_action,
                 captured_global_sonos_state, captured_light_state, light,
                 nadds, nadm, passlog, lastpass, gwlog, cvars, fvars, lvars>>

\* action() raises at its first gateway call: nothing is scheduled after it.
ActRaises(i) ==
  /\ actions[i].phase = "prepared"
  /\ \A j \in Band(i) : actions[j].phase # "created"
  /\ ActCanRaise(actions[i])
  /\ actions' = [actions EXCEPT ![i].phase = "acted", ![i].raised = TRUE]
  /\ app_errors' = app_errors + 1
  /\ UNCHANGED <<pc, notified, events, todo, cur, entity_to_action,
                 captured_global_sonos_state, captured_light_state, light,
                 nadds, nadm, passlog, lastpass, gwlog, cvars, fvars, lvars>>

\* The callback of a timer raises at its first gateway call: the action is
\* left as it was, with its timer spent.
TimerRaises(i) ==
  /\ TimerCanRaise(actions[i])
  /\ actions' = [actions EXCEPT ![i].timer = "none", ![i].raised = TRUE]
  /\ UNCHANGED <<pc, notified, events, todo, cur, entity_to_action,
                 captured_global_sonos_state, captured_light_state, light,
                 nadds, nadm, passlog, lastpass, gwlog, app_errors, cvars, fvars, lvars>>

NextFail ==
  \/ Next
  \/ \E i \in DOMAIN actions : PrepareRaises(i)
  \/ \E i \in DOMAIN actions : ActRaises(i)
  \/ \E i \in DOMAIN actions : TimerRaises(i)

SpecFail == Init /\ [][NextFail]_vars

\* The scheduler with its worker threads scheduled fairly: a worker that can
\* run prepare() or action() does so in the end.
SpecWorkers ==
  /\ Init
  /\ [][Next]_vars
  /\ WF_vars(\E i \in DOMAIN actions : Prepare(i))
  /\ WF_vars(\E i \in DOMAIN actions : Act(i))

(***************************************************************************)
(* The scheduler with a gateway whose snapshot and restore calls may       *)
(* raise.  These calls are made by the controller thread inside the loop   *)
(* of _run_controller_cycle; run() wraps the whole loop in one             *)
(* _thread_wrap_for_appdaemon, so the exception leaves the loop, releases  *)
(* _cv, is handed to app.error and the thread ends.                        *)
(***************************************************************************)
\* The actions of an entry whose worker threads are never created.
Unstarted(made) == [n \in DOMAIN made |-> [made[n] EXCEPT !.phase = "unstarted"]]

\* _process_single_event where capture_global_sonos_state (line 249) raises:
\* the entry has left the events, its actions are created and registered,
\* the flag is not set and no worker thread is created.
ProcessRaises ==
  /\ pc = "pass"
  /\ cur # <<>>
  /\ LET event_tpl == cur[1]
         outputs == Config[event_tpl.event]
         adm == nadm + 1
         sonos_actions == create_sonos_actions(outputs, adm)
         lf == create_light_actions(outputs, adm, captured_light_state, light)
         executable_actions ==
           sonos_actions \o lf.made
           \o create_service_actions(outputs.notify, "NotifyAction", adm)
           \o create_service_actions(outputs.mqtt, "MQTTAction", adm)
     IN /\ capture_needed(executable_actions, captured_global_sonos_state)
        /\ events' = RemoveFirst(events, event_tpl)
        /\ actions' = actions \o Unstarted(executable_actions)
        /\ entity_to_action' =
             Register(entity_to_action, executable_actions, 1, Len(actions))
        /\ captured_light_state' = lf.captured
  /\ nadm' = nadm + 1
  /\ cur' = <<>>
  /\ todo' = <<>>
  /\ pc' = "stopped"
  /\ app_errors' = app_errors + 1
  /\ UNCHANGED <<notified, captured_global_sonos_state, light, nadds, passlog,
                 lastpass, gwlog, cvars, fvars, lvars>>

\* _run_controller_cycle where restore_global_sonos_state (line 164) raises:
\* the flag stays set and the captured light state is not dropped.
RestoreRaises ==
  /\ pc = "pass"
  /\ cur = <<>>
  /\ todo = <<>>
  /\ restore_needed(captured_global_sonos_state, entity_to_action, actions)
  /\ pc' = "stopped"
  /\ app_errors' = app_errors + 1
  /\ UNCHANGED <<notified, events, todo, cur, entity_to_action,
                 captured_global_sonos_state, captured_light_state, actions,
                 light, nadds, nadm, passlog, lastpass, gwlog, cvars, fvars, lvars>>

NextPass ==
  \/ Next
  \/ ProcessRaises
  \/ RestoreRaises

SpecPass == Init /\ [][NextPass]_vars

(***************************************************************************)
(* The locks.  _cv is the condition of the controller, made by             *)
(* threading.Condition() over a reentrant lock; every action has its own   *)
(* threading.RLock().  Each thread is a straight-line program of lock      *)
(* operations, read off the code it runs; what it does between them        *)
(* (gateway calls, the table) is left out.  Two actions: a1, a             *)
(* SimpleLightAction, and a2, a SonosTTSAction that is not the primary.    *)
(***************************************************************************)
LockedActions == {"a1", "a2"}
Locks == {"cv"} \cup LockedActions
Threads == {"controller", "caller", "band", "worker", "tts_worker", "timer"}

\* One instruction: acq and rel of a lock; retrel, the end of a block
\* "with self._lock: if self._is_finished: return" (it releases, and skips
\* the rest of complete_action when the action is finished); setrel, the same
\* for the block that sets _is_finished; wait and wake, the two halves of
\* _cv.wait(); notify; join of a thread; goto.
I(op, lock, skip) == [op |-> op, lock |-> lock, skip |-> skip]

\* with self._lock: a block that returns from nothing but itself
With(l, body) == <<I("acq", l, 0)>> \o body \o <<I("rel", l, 0)>>

\* with self._lock: if self._is_finished: return, and then rest
Guarded(a, rest) == <<I("acq", a, 0), I("retrel", a, Len(rest))>> \o rest

\* _report_action_finished
report_action_finished == <<I("acq", "cv", 0), I("notify", "cv", 0), I("rel", "cv", 0)>>

\* ActionBase.complete_action
base_complete_action(a) ==
  <<I("acq", a, 0), I("setrel", a, Len(report_action_finished))>>
  \o report_action_finished

\* TimedActionBase.complete_action
timed_complete_action(a) == Guarded(a, base_complete_action(a))

\* LightActionBase.complete_action: the finish policy takes the lock in
\* _turn_off_with_args; with entities to kill it is applied under the lock.
light_complete_action(a, forced) ==
  Guarded(a, (IF forced THEN With(a, With(a, <<>>)) ELSE With(a, <<>>))
             \o timed_complete_action(a))

\* SonosTTSAction.complete_action and SonosAction.complete_action of an
\* action that is not the primary
tts_complete_action(a) == Guarded(a, Guarded(a, timed_complete_action(a)))

\* ActionBase.is_finished
is_finished_call(a) == With(a, <<>>)

\* add(): the append and the notify under _cv
add_call == <<I("acq", "cv", 0), I("notify", "cv", 0), I("rel", "cv", 0)>>

RECURSIVE Repeat(_, _)
Repeat(prog, n) == IF n = 0 THEN <<>> ELSE prog \o Repeat(prog, n - 1)

\* _run_controller_cycle: the thread takes _cv, and in every turn waits,
\* asks every action of the table whether it is finished and kills the
\* actions of a forced event; then line 123 again.
controller_program ==
  <<I("acq", "cv", 0), I("wait", "cv", 0), I("wake", "cv", 0)>>
  \o is_finished_call("a1") \o is_finished_call("a2")
  \o light_complete_action("a1", TRUE) \o tts_complete_action("a2")
  \o <<I("goto", "cv", 2)>>

\* The program of each thread.
Program(t) ==
  CASE t = "controller" -> controller_program
    [] t = "caller" -> Repeat(add_call, MaxAdds)
    [] t = "band" -> <<I("join", "worker", 0), I("join", "tts_worker", 0)>>
    [] t = "worker" -> With("a1", <<>>) \o With("a1", <<>>)
    [] t = "tts_worker" -> tts_complete_action("a2")
    [] t = "timer" -> light_complete_action("a1", FALSE)

Running(t) == at[t] <= Len(Program(t))
Instr(t) == Program(t)[at[t]]

\* (mutant) locks that are not reentrant.
can_acquire_plain(l, t) == holder[l] = "none"

\* threading.RLock: free, or held by the thread that asks.
can_acquire(l, t) == holder[l] \in {"none", t}

Acquire(t) ==
  /\ Running(t)
  /\ Instr(t).op = "acq"
  /\ can_acquire(Instr(t).lock, t)
  /\ holder' = [holder EXCEPT ![Instr(t).lock] = t]
  /\ depth' = [depth EXCEPT ![Instr(t).lock] = @ + 1]
  /\ at' = [at EXCEPT ![t] = @ + 1]
  /\ UNCHANGED <<finished, signalled, svars, cvars, fvars>>

\* The lock after one release by its holder.
Released(l) ==
  /\ depth' = [depth EXCEPT ![l] = @ - 1]
  /\ holder' = [holder EXCEPT ![l] = IF depth[l] = 1 THEN "none" ELSE @]

Release(t) ==
  /\ Running(t)
  /\ Instr(t).op = "rel"
  /\ Released(Instr(t).lock)
  /\ at' = [at EXCEPT ![t] = @ + 1]
  /\ UNCHANGED <<finished, signalled, svars, cvars, fvars>>

ReturnIfFinished(t) ==
  /\ Running(t)
  /\ Instr(t).op = "retrel"
  /\ Released(Instr(t).lock)
  /\ at' = [at EXCEPT ![t] =
              @ + 1 + (IF finished[Instr(t).lock] THEN Instr(t).skip ELSE 0)]
  /\ UNCHANGED <<finished, signalled, svars, cvars, fvars>>

SetFinished(t) ==
  /\ Running(t)
  /\ Instr(t).op = "setrel"
  /\ Released(Instr(t).lock)
  /\ finished' = [finished EXCEPT ![Instr(t).lock] = TRUE]
  /\ at' = [at EXCEPT ![t] =
              @ + 1 + (IF finished[Instr(t).lock] THEN Instr(t).skip ELSE 0)]
  /\ UNCHANGED <<signalled, svars, cvars, fvars>>

\* _cv.wait(): the lock is given up.
Wait(t) ==
  /\ Running(t)
  /\ Instr(t).op = "wait"
  /\ holder[Instr(t).lock] = t
  /\ holder' = [holder EXCEPT ![Instr(t).lock] = "none"]
  /\ depth' = [depth EXCEPT ![Instr(t).lock] = 0]
  /\ at' = [at EXCEPT ![t] = @ + 1]
  /\ UNCHANGED <<finished, signalled, svars, cvars, fvars>>

\* _cv.wait() returns: notified, and with the lock again.
Awake(t) ==
  /\ Running(t)
  /\ Instr(t).op = "wake"
  /\ signalled
  /\ can_acquire(Instr(t).lock, t)
  /\ signalled' = FALSE
  /\ holder' = [holder EXCEPT ![Instr(t).lock] = t]
  /\ depth' = [depth EXCEPT ![Instr(t).lock] = 1]
  /\ at' = [at EXCEPT ![t] = @ + 1]
  /\ UNCHANGED <<finished, svars, cvars, fvars>>

\* The controller thread waits on _cv.
Waiting(t) == Running(t) /\ Instr(t).op = "wake"

\* _cv.notify(): lost unless the controller thread waits.
Notify(t) ==
  /\ Running(t)
  /\ Instr(t).op = "notify"
  /\ signalled' = (signalled \/ Waiting("controller"))
  /\ at' = [at EXCEPT ![t] = @ + 1]
  /\ UNCHANGED <<holder, depth, finished, svars, cvars, fvars>>

\* worker.join()
Join(t) ==
  /\ Running(t)
  /\ Instr(t).op = "join"
  /\ ~Running(Instr(t).lock)
  /\ at' = [at EXCEPT ![t] = @ + 1]
  /\ UNCHANGED <<holder, depth, finished, signalled, svars, cvars, fvars>>

\* while True
LoopAgain(t) ==
  /\ Running(t)
  /\ Instr(t).op = "goto"
  /\ at' = [at EXCEPT ![t] = Instr(t).skip]
  /\ UNCHANGED <<holder, depth, finished, signalled, svars, cvars, fvars>>

StepLocks(t) ==
  \/ Acquire(t)
  \/ Release(t)
  \/ ReturnIfFinished(t)
  \/ SetFinished(t)
  \/ Wait(t)
  \/ Awake(t)
  \/ Notify(t)
  \/ Join(t)
  \/ LoopAgain(t)

InitLocks ==
  /\ InitScheduler
  /\ light = [e \in LightEntities |-> "off"]
  /\ InitNoObject
  /\ InitNoCall
  /\ holder = [l \in Locks |-> "none"]
  /\ depth = [l \in Locks |-> 0]
  /\ at = [t \in Threads |-> 1]
  /\ finished = [a \in LockedActions |-> FALSE]
  /\ signalled = FALSE

NextLocks == \E t \in Threads : StepLocks(t)

\* Every thread that can run does so in the end.
SpecLocks ==
  /\ InitLocks
  /\ [][NextLocks]_vars
  /\ \A t \in Threads : WF_vars(StepLocks(t))

(***************************************************************************)
(* Properties of the scheduler.                                            *)
(***************************************************************************)
\* The physical entities the matched outputs of an event touch.
Touched(ev) ==
  UNION {Range(Config[ev].sonos[i].entities) : i \in DOMAIN Config[ev].sonos}
  \cup UNION {UNION {Underlying(e) : e \in Range(Config[ev].light[i].entities)} :
                i \in DOMAIN Config[ev].light}

\* The unfinished actions that claim entity e.
Claimants(e) ==
  {i \in DOMAIN actions : e \in actions[i].entities /\ ~actions[i].is_finished}

\* The actions created for the admission adm.
ActionsOf(adm) == {i \in DOMAIN actions : actions[i].adm = adm}

\* The actions registered in the table.
Registered == {entity_to_action[e] : e \in DOMAIN entity_to_action}

\* The actions that held an entity of the entry when it was examined.
Holders(entry) ==
  {entry.table[e] : e \in Touched(entry.event) \cap DOMAIN entry.table}

\* C1: for every entity, at most one unfinished action claims it, and that
\* action is the one the table registers under the entity: no action is
\* registered over an unfinished one.
C1_AtMostOneUnfinishedAction ==
  \A e \in Entities :
    /\ Cardinality(Claimants(e)) <= 1
    /\ \A i \in Claimants(e) :
         e \in DOMAIN entity_to_action /\ entity_to_action[e] = i

\* C1, witness: an entity went from a finished action to an unfinished one.
C1_Witness ==
  \E e \in Entities : \E i, j \in DOMAIN actions :
    /\ i # j
    /\ e \in actions[i].entities \cap actions[j].entities
    /\ actions[i].is_finished
    /\ ~actions[j].is_finished
    /\ e \in DOMAIN entity_to_action /\ entity_to_action[e] = j

\* C2: an entry admitted without force touched no entity that was a key of
\* the table when it was examined, and no action made for it claims one.
C2_UnforcedAdmissionUncontended ==
  \A n \in DOMAIN passlog :
    (~passlog[n].force /\ passlog[n].outcome = "admitted") =>
      /\ Touched(passlog[n].event) \cap DOMAIN passlog[n].table = {}
      /\ \A i \in ActionsOf(passlog[n].adm) :
           actions[i].entities \cap DOMAIN passlog[n].table = {}

\* C2, witness: an entry was admitted without force while the table held
\* other entities, some claimed by an entry admitted earlier in the pass.
C2_Witness ==
  \E n \in DOMAIN passlog :
    /\ ~passlog[n].force
    /\ passlog[n].outcome = "admitted"
    /\ n > 1
    /\ passlog[n - 1].outcome = "admitted"
    /\ DOMAIN passlog[n].table # {}
    /\ \E i \in ActionsOf(passlog[n].adm) : actions[i].entities # {}

\* C3: an entry with force is admitted when it is examined, and every action
\* that held one of its entities is finished and out of the table from then
\* on, so before an action of the entry is registered.
C3_ForceAdmitsAfterKill ==
  \A n \in DOMAIN passlog :
    passlog[n].force =>
      /\ passlog[n].outcome = "admitted"
      /\ \A k \in Holders(passlog[n]) :
           actions[k].is_finished /\ k \notin Registered

\* C3, witness: an entry with force met a holder of higher priority that was
\* not finished, and its own action is registered under the entity.
C3_Witness ==
  \E n \in DOMAIN passlog : \E k \in Holders(passlog[n]) :
    /\ passlog[n].force
    /\ actions[k].priority > passlog[n].priority
    /\ actions[k].callbacks = 1 /\ ~actions[k].reporting
    /\ \E i \in ActionsOf(passlog[n].adm) :
         /\ i \in Registered
         /\ actions[i].entities \cap actions[k].entities # {}

C5_HigherBandFirst ==
  \A i, j \in DOMAIN actions :
    (/\ actions[i].adm = actions[j].adm
     /\ actions[i].priority > actions[j].priority
     /\ actions[j].phase # "created")
    => actions[i].phase = "acted"

\* C10: once action() of a notify or mqtt action has returned, the action
\* has made one gateway call, is finished and has called back.
C10_ServiceActionFinishedByAct ==
  \A i \in DOMAIN actions :
    (actions[i].kind \in ServiceKinds /\ actions[i].phase = "acted") =>
      /\ actions[i].ncalls = 1
      /\ actions[i].is_finished
      /\ actions[i].callbacks = 1

\* C8: the gateway sees snapshot and restore calls alternate, the first a
\* snapshot, the flag says whether the last was a snapshot, and a restore is
\* issued only when no sonos action is left in the table.
C8_SnapshotRestoreAlternate ==
  /\ [](/\ \A n \in DOMAIN gwlog :
             gwlog[n] = IF n % 2 = 1 THEN "snapshot" ELSE "restore"
        /\ captured_global_sonos_state = (Len(gwlog) % 2 = 1))
  /\ [][gwlog' = Append(gwlog, "restore") =>
          \A e \in DOMAIN entity_to_action' :
            actions'[entity_to_action'[e]].kind \notin SonosKinds]_vars

\* C8, witness: two events with sonos actions were admitted, the second
\* before the state captured for the first was restored; there was one
\* snapshot and, after both, one restore.
C8_Witness ==
  /\ gwlog = <<"snapshot", "restore">>
  /\ \E i, j \in DOMAIN actions :
       /\ actions[i].kind \in SonosKinds
       /\ actions[j].kind \in SonosKinds
       /\ actions[i].adm # actions[j].adm

\* C9: an action of which a gateway call raised, in prepare(), action() or a
\* timer callback, and for which no thread runs and no timer is pending any
\* more, is finished.
C9_FinishedDespiteFailure ==
  \A i \in DOMAIN actions :
    (actions[i].raised /\ actions[i].phase = "acted"
     /\ actions[i].timer = "none")
    => actions[i].is_finished

(***************************************************************************)
(* complete_action, one acquisition of the action's lock at a time.        *)
(* Every "with self._lock" block is one step; a gateway call made outside  *)
(* the lock is a step of its own.  Two callers: the gateway's timer thread *)
(* (complete_action with nothing to kill) and the controller thread        *)
(* (complete_action(hard_kill_entities) of _kill_actions_on_entities).     *)
(***************************************************************************)
\* "timer" also stands for any other caller of complete_action() with nothing
\* to kill (action() of a speak action that is not the primary, _breathe).
Callers == {"timer", "controller"}

\* The threads of a SonosTTSAction besides the callers of complete_action:
\* the worker that runs action(), and the scheduler thread that runs the
\* callback of the chime timer.
Runners == {"worker", "chime_timer"}

\* A call of complete_action: where it is, its hard_kill_entities, whether
\* the action was finished when it began, whether it is the callback of the
\* action's pending completion timer, the entities the finish policy is
\* still to be applied to, and what the call has done: the entities it
\* applied the finish policy to, its media_stop calls, the timers it
\* cancelled, its calls of the completion callback.
IdleCall ==
  [pc |-> "idle", hard_kill_entities |-> {}, late |-> FALSE,
   by_timer |-> FALSE, targets |-> <<>>, policy |-> {}, stops |-> 0,
   cancels |-> 0, callbacks |-> 0, chimes |-> 0, speaks |-> 0]

\* The complete_action methods a call runs through, subclass first.
complete_chain(kind) ==
  CASE kind = "BreathingLightAction" -> <<"breathing", "lightbase", "timed", "base">>
    [] kind = "SimpleLightAction" -> <<"lightbase", "timed", "base">>
    [] kind = "SonosTTSAction" -> <<"tts", "sonos", "timed", "base">>
    [] kind = "SonosPlayMediaAction" -> <<"sonos", "timed", "base">>
    [] OTHER -> <<"base">>

\* super().complete_action of the method named frame.
SuperOf(kind, frame) ==
  LET chain == complete_chain(kind)
      n == CHOOSE m \in DOMAIN chain : chain[m] = frame
  IN chain[n + 1]

RECURSIVE SetToSeq(_)
SetToSeq(S) ==
  IF S = {} THEN <<>>
  ELSE LET x == CHOOSE y \in S : TRUE IN <<x>> \o SetToSeq(S \ {x})

Return(o, k) == [o |-> o, k |-> [k EXCEPT !.pc = "idle"]]
Goto(o, k, label) == [o |-> o, k |-> [k EXCEPT !.pc = label]]

\* BreathingLightAction.complete_action, lines 431-434
BreathingFrame(o, k) ==
  IF o.is_finished THEN Return(o, k)
  ELSE IF o.timer = "breathe"
  THEN Goto([o EXCEPT !.timer = "none"], [k EXCEPT !.cancels = @ + 1],
            SuperOf(o.kind, "breathing"))
  ELSE Goto(o, k, SuperOf(o.kind, "breathing"))

\* SonosTTSAction.complete_action, lines 200-205
TTSFrame(o, k) ==
  IF o.is_finished THEN Return(o, k)
  ELSE IF o.timer = "speak"
  THEN Goto([o EXCEPT !.timer = "none"], [k EXCEPT !.cancels = @ + 1],
            SuperOf(o.kind, "tts"))
  ELSE Goto(o, k, SuperOf(o.kind, "tts"))

\* SonosAction.complete_action, lines 115-118
SonosFrame(o, k) ==
  IF o.is_finished THEN Return(o, k)
  ELSE IF is_primary(o) /\ k.hard_kill_entities # {}
  THEN Goto(o, k, "stop_check")
  ELSE Goto(o, k, SuperOf(o.kind, "sonos"))

\* SonosAction._stop_media, lines 147-149
StopCheck(o, k) ==
  IF o.is_finished THEN Goto(o, k, SuperOf(o.kind, "sonos"))
  ELSE Goto(o, k, "stop_call")

\* SonosAction._stop_media, lines 151-153
StopCall(o, k) ==
  Goto(o, [k EXCEPT !.stops = @ + 1], SuperOf(o.kind, "sonos"))

\* LightActionBase.complete_action, lines 333-339: the entity ids the finish
\* policy of a call with nothing to kill is applied to, in order.
PolicyTargets(o) ==
  CASE o.finish_action \in {"turn_on", "turn_off"} -> <<o.entity_id>>
    [] o.finish_action = "restore" -> SetToSeq(DOMAIN o.prior_state)
    [] OTHER -> <<>>

\* LightActionBase.complete_action, lines 329-333
LightBaseFrame(o, k) ==
  IF o.is_finished THEN Return(o, k)
  ELSE IF k.hard_kill_entities # {} THEN Goto(o, k, "forced_policy")
  ELSE IF PolicyTargets(o) = <<>> THEN Goto(o, k, SuperOf(o.kind, "lightbase"))
  ELSE Goto(o, [k EXCEPT !.targets = PolicyTargets(o)], "policy_check")

\* After one entity of the finish policy: the next one, or super().
AfterTarget(o, k) ==
  IF Tail(k.targets) = <<>>
  THEN Goto(o, [k EXCEPT !.targets = <<>>], SuperOf(o.kind, "lightbase"))
  ELSE Goto(o, [k EXCEPT !.targets = Tail(@)], "policy_check")

\* _turn_on_with_args and _turn_off_with_args, lines 303-305 and 316-318
PolicyCheck(o, k) ==
  IF o.is_finished THEN AfterTarget(o, k) ELSE Goto(o, k, "policy_call")

\* _turn_on_with_args and _turn_off_with_args, lines 307-310 and 320-323
PolicyCall(o, k) ==
  AfterTarget(o, [k EXCEPT !.policy = @ \cup {Head(k.targets)}])

\* LightActionBase.complete_action, lines 341-350: under the lock, the
\* finish policy on each entity of prior_state that is not to be killed.
ForcedPolicy(o, k) ==
  Goto(o,
       [k EXCEPT !.policy =
          IF o.is_finished
             \/ o.finish_action \notin {"turn_on", "turn_off", "restore"}
          THEN @
          ELSE @ \cup (DOMAIN o.prior_state \ k.hard_kill_entities)],
       SuperOf(o.kind, "lightbase"))

\* TimedActionBase.complete_action, lines 80-85
TimedFrame(o, k) ==
  IF o.is_finished THEN Return(o, k)
  ELSE IF o.timer = "complete"
  THEN Goto([o EXCEPT !.timer = "none"], [k EXCEPT !.cancels = @ + 1],
            SuperOf(o.kind, "timed"))
  ELSE Goto(o, k, SuperOf(o.kind, "timed"))

\* (mutant) ActionBase.complete_action without lines 57-58.
BaseFrameUnguarded(o, k) ==
  Goto([o EXCEPT !.is_finished = TRUE], k, "callback")

\* ActionBase.complete_action, lines 56-59
BaseFrame(o, k) ==
  IF o.is_finished THEN Return(o, k)
  ELSE Goto([o EXCEPT !.is_finished = TRUE], k, "callback")

\* ActionBase.complete_action, line 60
Callback(o, k) ==
  Return([o EXCEPT !.callbacks = @ + 1], [k EXCEPT !.callbacks = @ + 1])

\* SonosTTSAction._action_chime, lines 220-222
ChimeCheck(o, k) ==
  IF o.is_finished THEN Return([o EXCEPT !.phase = "acted"], k)
  ELSE Goto(o, k, "chime_call")

\* SonosTTSAction._action_chime, lines 224-230
ChimeCall(o, k) == Goto(o, [k EXCEPT !.chimes = @ + 1], "chime_set")

\* SonosTTSAction._action_chime, lines 232-236
ChimeSet(o, k) ==
  Return([o EXCEPT !.phase = "acted",
                   !.timer = IF o.is_finished THEN @ ELSE "speak"], k)

\* SonosTTSAction._action_speak, lines 239-241
SpeakCheck(o, k) ==
  IF o.is_finished THEN Return(o, k) ELSE Goto(o, k, "speak_call")

\* SonosTTSAction._action_speak, lines 242-247
SpeakCall(o, k) == Goto(o, [k EXCEPT !.speaks = @ + 1], "speak_schedule")

\* TimedActionBase._schedule_action_complete, lines 88-94
SpeakSchedule(o, k) ==
  Return([o EXCEPT !.timer = IF o.is_finished THEN @ ELSE "complete"], k)

\* BreathingLightAction.action, lines 421-423
BreatheCheck(o, k) ==
  IF o.is_finished THEN Return([o EXCEPT !.phase = "acted"], k)
  ELSE Goto(o, k, "breathe_start")

\* BreathingLightAction.action, lines 425-428: run_every, with no test.
BreatheStart(o, k) ==
  Return([o EXCEPT !.phase = "acted", !.timer = "breathe"], k)

\* The next step of a call.
Frame(o, k) ==
  CASE k.pc = "breathing" -> BreathingFrame(o, k)
    [] k.pc = "tts" -> TTSFrame(o, k)
    [] k.pc = "sonos" -> SonosFrame(o, k)
    [] k.pc = "stop_check" -> StopCheck(o, k)
    [] k.pc = "stop_call" -> StopCall(o, k)
    [] k.pc = "lightbase" -> LightBaseFrame(o, k)
    [] k.pc = "policy_check" -> PolicyCheck(o, k)
    [] k.pc = "policy_call" -> PolicyCall(o, k)
    [] k.pc = "forced_policy" -> ForcedPolicy(o, k)
    [] k.pc = "timed" -> TimedFrame(o, k)
    [] k.pc = "base" -> BaseFrame(o, k)
    [] k.pc = "callback" -> Callback(o, k)
    [] k.pc = "chime_check" -> ChimeCheck(o, k)
    [] k.pc = "chime_call" -> ChimeCall(o, k)
    [] k.pc = "chime_set" -> ChimeSet(o, k)
    [] k.pc = "speak_check" -> SpeakCheck(o, k)
    [] k.pc = "speak_call" -> SpeakCall(o, k)
    [] k.pc = "speak_schedule" -> SpeakSchedule(o, k)
    [] k.pc = "breathe_check" -> BreatheCheck(o, k)
    [] k.pc = "breathe_start" -> BreatheStart(o, k)

\* The hard_kill_entities a caller can pass: the timer thread none; the
\* controller the entities of an event, one of which the action holds.
KillSets(c, o) ==
  IF c = "timer" THEN {{}}
  ELSE {K \in (SUBSET LightEntities \cup SUBSET SonosEntities) :
          K \cap o.entities # {}}

\* A caller calls complete_action.
BeginComplete(c, K) ==
  /\ obj # <<>>
  /\ calls[c].pc = "idle"
  /\ started[c] < MaxCalls
  /\ K \in KillSets(c, obj[1])
  /\ started' = [started EXCEPT ![c] = @ + 1]
  /\ calls' = [calls EXCEPT ![c] =
                 [IdleCall EXCEPT !.pc = complete_chain(obj[1].kind)[1],
                                  !.hard_kill_entities = K,
                                  !.late = obj[1].is_finished,
                                  !.by_timer = (c = "timer"
                                                /\ obj[1].timer = "complete")]]
  /\ UNCHANGED <<obj, svars, fvars, lvars>>

\* A caller takes the next step of its call.
StepComplete(c) ==
  /\ obj # <<>>
  /\ calls[c].pc # "idle"
  /\ LET r == Frame(obj[1], calls[c])
     IN /\ obj' = <<r.o>>
        /\ calls' = [calls EXCEPT ![c] = r.k]
  /\ UNCHANGED <<started, svars, fvars, lvars>>

\* The worker calls _action_chime of a prepared primary with a chime
\* (SonosTTSAction.action, lines 214-215).
BeginChime ==
  /\ obj # <<>>
  /\ obj[1].kind = "SonosTTSAction"
  /\ is_primary(obj[1])
  /\ obj[1].chime
  /\ obj[1].phase = "created"
  /\ calls["worker"].pc = "idle"
  /\ obj' = <<[obj[1] EXCEPT !.phase = "prepared"]>>
  /\ calls' = [calls EXCEPT !["worker"] =
                 [IdleCall EXCEPT !.pc = "chime_check",
                                  !.late = obj[1].is_finished]]
  /\ UNCHANGED <<started, svars, fvars, lvars>>

\* The worker calls action() of a prepared breathing action
\* (BreathingLightAction.action, lines 419-420).
BeginBreathe ==
  /\ obj # <<>>
  /\ obj[1].kind = "BreathingLightAction"
  /\ obj[1].phase = "created"
  /\ calls["worker"].pc = "idle"
  /\ obj' = <<[obj[1] EXCEPT !.phase = "prepared"]>>
  /\ calls' = [calls EXCEPT !["worker"] =
                 [IdleCall EXCEPT !.pc = "breathe_check",
                                  !.late = obj[1].is_finished]]
  /\ UNCHANGED <<started, svars, fvars, lvars>>

\* The chime timer fires: the scheduler thread calls _action_speak
\* (line 234); the timer is pending no longer.
SpeakTimerFires ==
  /\ obj # <<>>
  /\ obj[1].timer = "speak"
  /\ calls["chime_timer"].pc = "idle"
  /\ obj' = <<[obj[1] EXCEPT !.timer = "none"]>>
  /\ calls' = [calls EXCEPT !["chime_timer"] =
                 [IdleCall EXCEPT !.pc = "speak_check",
                                  !.late = obj[1].is_finished]]
  /\ UNCHANGED <<started, svars, fvars, lvars>>

\* The action objects complete_action is called on: of every class, as the
\* constructor, action() and the chime timer leave them.
LightObjects ==
  {NewAction(kind, 1, 0, e, Underlying(e), "", "turn_on", f, FALSE,
             [u \in Underlying(e) |-> "on"]) :
     kind \in LightKinds, e \in {"l1", "lg"},
     f \in {"none", "turn_on", "turn_off", "restore"}}

SonosObjects ==
  {NewAction(SONOS_ACTION_MAP(a), 1, 0, e, {e}, "s1", a, "none", ch, <<>>) :
     a \in {"speak", "media_play"}, e \in SonosEntities, ch \in BOOLEAN}

ServiceObjects ==
  {NewAction(kind, 1, 0, "", {}, "", "call", "none", FALSE, <<>>) :
     kind \in ServiceKinds}

CreatedObjects == LightObjects \cup SonosObjects \cup ServiceObjects

ActedObjects ==
  {[ActObj(o) EXCEPT !.phase = "acted", !.reporting = FALSE, !.ncalls = 0,
                     !.callbacks = 0] : o \in CreatedObjects}

SpokenObjects ==
  {[action_speak([o EXCEPT !.timer = "none"]) EXCEPT !.ncalls = 0] :
     o \in {a \in ActedObjects : a.timer = "speak"}}

InitComplete ==
  /\ InitScheduler
  /\ light = [e \in LightEntities |-> "off"]
  /\ \E o \in {a \in CreatedObjects \cup ActedObjects \cup SpokenObjects :
                 ~a.is_finished} :
       obj = <<o>>
  /\ calls = [c \in Callers \cup Runners |-> IdleCall]
  /\ started = [c \in Callers |-> 0]
  /\ InitNoCall
  /\ InitNoLocks

NextComplete ==
  \/ \E c \in Callers : \E K \in SUBSET Entities : BeginComplete(c, K)
  \/ \E c \in Callers : StepComplete(c)
  \/ BeginChime
  \/ BeginBreathe
  \/ SpeakTimerFires
  \/ \E c \in Runners : StepComplete(c)

SpecComplete == InitComplete /\ [][NextComplete]_vars

(***************************************************************************)
(* Properties of complete_action.                                          *)
(***************************************************************************)
\* C6: when complete_action of the timer thread and complete_action of the
\* controller thread interleave, at most one of the two calls applies the
\* finish policy, and once both have returned the action is finished.
C6_OnlyFirstCompleteWins ==
  calls["timer"].by_timer =>
    /\ ~(calls["timer"].policy # {} /\ calls["controller"].policy # {})
    /\ ((\A c \in Callers : calls[c].pc = "idle" /\ started[c] > 0)
        => obj[1].is_finished)

\* C7: a call of complete_action that begins when the action is finished
\* returns at its first check: it applies no finish policy, stops no media,
\* cancels no timer and does not call back; the completion callback is
\* called at most once, and once when the calls have returned.
C7_SecondCompleteIsNoOp ==
  /\ \A c \in Callers :
       calls[c].late =>
         /\ calls[c].pc \in {"idle", complete_chain(obj[1].kind)[1]}
         /\ calls[c].policy = {}
         /\ calls[c].stops = 0
         /\ calls[c].cancels = 0
         /\ calls[c].callbacks = 0
  /\ obj[1].callbacks <= 1
  /\ ((\E c \in Callers : started[c] > 0)
      /\ (\A c \in Callers : calls[c].pc = "idle"))
     => (obj[1].callbacks = 1 /\ obj[1].is_finished)

\* C7, witness: a caller's second call of complete_action has returned
\* after its first one finished the action.
C7_Witness ==
  \E c \in Callers :
    /\ started[c] = 2
    /\ calls[c].late
    /\ calls[c].pc = "idle"
    /\ obj[1].callbacks = 1
    /\ obj[1].kind \in LightKinds
    /\ obj[1].finish_action = "restore"

(***************************************************************************)
(* Properties of the queue of events.                                      *)
(***************************************************************************)
\* The tuple add() queued for an examined entry.
Tpl(entry) ==
  [priority |-> entry.priority, force |-> entry.force, event |-> entry.event]

\* How many elements of s satisfy equal t.
Count(s, t) == Cardinality({n \in DOMAIN s : s[n] = t})

\* How many entries of a pass log were postponed as the tuple t.
Postponed(log, t) ==
  Cardinality({n \in DOMAIN log :
                 log[n].outcome = "postponed" /\ Tpl(log[n]) = t})

\* C11: during a pass the queue is, tuple for tuple, what is still to be
\* examined, what is being admitted and what was postponed, so a postponed
\* entry stays queued as it was; every entry the pass before postponed is
\* examined again in this pass; only an entry with no force is postponed,
\* and an entry that meets none of its entities in the table is admitted;
\* and the queue changes only by add() appending or by the admitted entry
\* being removed.
C11_PostponedStaysQueued ==
  /\ [](/\ pc = "pass" =>
             \A t \in Range(events) \cup Range(todo) \cup Range(cur) :
               /\ Count(events, t) =
                    Count(todo, t) + Count(cur, t) + Postponed(passlog, t)
               /\ Count(lastpass, t) <=
                    Count(todo, t) + Count(cur, t)
                    + Cardinality({n \in DOMAIN passlog : Tpl(passlog[n]) = t})
        /\ \A n \in DOMAIN lastpass :
             \/ lastpass[n] \in Range(events)
             \/ \E m \in DOMAIN passlog :
                  /\ Tpl(passlog[m]) = lastpass[n]
                  /\ passlog[m].outcome = "admitted"
        /\ \A n \in DOMAIN passlog :
             /\ passlog[n].outcome = "postponed" => ~passlog[n].force
             /\ Touched(passlog[n].event) \cap DOMAIN passlog[n].table = {}
                  => passlog[n].outcome = "admitted")
  /\ [][events' # events =>
          \/ /\ Len(events') = Len(events) + 1
             /\ SubSeq(events', 1, Len(events)) = events
          \/ /\ cur # <<>>
             /\ events' = RemoveFirst(events, cur[1])]_vars

\* C11, witness: a pass admits an entry with no force that the pass before
\* postponed.
C11_Witness ==
  /\ pc = "pass"
  /\ \E n \in DOMAIN passlog : \E m \in DOMAIN lastpass :
       /\ Tpl(passlog[n]) = lastpass[m]
       /\ ~passlog[n].force
       /\ passlog[n].outcome = "admitted"
       /\ ActionsOf(passlog[n].adm) # {}

(***************************************************************************)
(* Properties of a forced completion.                                      *)
(***************************************************************************)
\* What the finish policy of action a makes of entity e, which is s.
PolicyValue(a, e, s) ==
  CASE a.finish_action = "turn_on" -> "on"
    [] a.finish_action = "turn_off" -> "off"
    [] a.finish_action = "restore" -> a.prior_state[e]
    [] OTHER -> s

\* C12: in the step that kills for a forcing entry, each light action
\* killed unfinished makes one gateway call for each of its entities outside
\* the entry's entities when it has a finish policy, and none otherwise;
\* each light is left as the policy of the killed action that claims it
\* makes it when it is outside the entry's entities, and as it was when it
\* is inside or claimed by no killed action; every action not killed,
\* whichever event it belongs to, is left as it was.
C12_ForcedPolicyOutsideKillSet ==
  [][(Len(passlog') = Len(passlog) + 1 /\ passlog'[Len(passlog')].force) =>
       LET entry == passlog'[Len(passlog')]
           forcing == Touched(entry.event)
           spared(k) == actions[k].entities \ forcing
       IN /\ \A k \in entry.killed :
               /\ actions'[k].is_finished
               /\ actions[k].kind \in LightKinds =>
                    actions'[k].ncalls - actions[k].ncalls =
                      IF actions[k].finish_action = "none" THEN 0
                      ELSE Cardinality(spared(k))
          /\ \A e \in LightEntities :
               light'[e] =
                 IF \E k \in entry.killed : e \in spared(k)
                 THEN LET k == CHOOSE j \in entry.killed : e \in spared(j)
                      IN PolicyValue(actions[k], e, light[e])
                 ELSE light[e]
          /\ \A i \in DOMAIN actions \ Holders(entry) :
               actions'[i] = actions[i]]_vars

\* C12, witness: a forcing entry killed an unfinished light action with a
\* finish policy that claims an entity of the entry and one outside it, and
\* the event of that action has another action, which is not finished.
C12_Witness ==
  \E n \in DOMAIN passlog : \E k \in passlog[n].killed :
    /\ passlog[n].force
    /\ actions[k].finish_action # "none"
    /\ actions[k].entities \cap Touched(passlog[n].event) # {}
    /\ actions[k].entities \ Touched(passlog[n].event) # {}
    /\ actions[k].is_finished
    /\ \E j \in ActionsOf(actions[k].adm) :
         j # k /\ ~actions[j].is_finished

(***************************************************************************)
(* config.py: get_event_arguments.  A dict is a function from its keys;    *)
(* None and the empty dict are both <<>>, which the code treats alike.  A  *)
(* value is a string; the value a layer gives to a key is the name of the  *)
(* layer, so that the result shows which layer each value came from.       *)
(***************************************************************************)
Domains == {"light", "sonos", "notify", "mqtt", "settings"}

\* DEFAULTS_MAPPING
DEFAULTS_MAPPING(domain) ==
  CASE domain = "light" ->
         [action |-> "toggle", finish_action |-> "none", length |-> "5",
          priority |-> "0"]
    [] domain = "sonos" ->
         [action |-> "speak", length |-> "5",
          tts_service |-> "tts/google_cloud_say",
          message |-> "The message was unset", chime_length |-> "3",
          priority |-> "0"]
    [] domain = "notify" ->
         [priority |-> "0", message |-> "The message was unset"]
    [] domain = "mqtt" ->
         [priority |-> "0", service |-> "mqtt/publish",
          payload |-> "{{ tags|tojson }}"]
    [] domain = "settings" -> [force |-> "False"]

\* for arg in g: args[arg] = g[arg]
Overwrite(args, g) ==
  [k \in DOMAIN args \cup DOMAIN g |->
     IF k \in DOMAIN g THEN g[k] ELSE args[k]]

\* get_event_arguments, lines 309-316: the tags of the event, in order.
RECURSIVE OverwriteWithTags(_, _, _, _)
OverwriteWithTags(args, event_tags, tags, domain) ==
  IF event_tags = <<>> THEN args
  ELSE LET event_tag == Head(event_tags)
           next ==
             IF /\ tags # <<>>
                /\ event_tag \in DOMAIN tags
                /\ tags[event_tag] # <<>>
                /\ domain \in DOMAIN tags[event_tag]
             THEN Overwrite(args, tags[event_tag][domain])
             ELSE args
       IN OverwriteWithTags(next, Tail(event_tags), tags, domain)

\* (mutant) get_event_arguments, lines 325-327, without the test: a default
\* replaces what the layers set.
PopulateDefaultsOver(args, defaults) == Overwrite(args, defaults)

\* get_event_arguments, lines 325-327
PopulateDefaults(args, defaults) ==
  [k \in DOMAIN args \cup DOMAIN defaults |->
     IF k \in DOMAIN args THEN args[k] ELSE defaults[k]]

\* get_event_arguments
get_event_arguments(config, event, output_args, domain) ==
  LET from_event == IF domain \in DOMAIN event THEN event[domain] ELSE <<>>
      from_tags ==
        OverwriteWithTags(from_event, event["tags"], config["tags"], domain)
      from_output ==
        IF output_args # <<>> THEN Overwrite(from_tags, output_args)
        ELSE from_tags
  IN PopulateDefaults(from_output, DEFAULTS_MAPPING(domain))

\* The inputs: argument maps over three keys, of which two have defaults in
\* some domains; two tags, each configured or not, with arguments for the
\* domain or not; an event with up to MaxTags tags, in any order.
ArgKeys == {"priority", "message", "volume"}
TagNames == {"t1", "t2"}

LayerArgs(layer) == {[k \in S |-> layer] : S \in SUBSET ArgKeys}

TagConfig(t, domain) ==
  {<<>>} \cup {(domain :> m) : m \in LayerArgs(t)}

TagConfigs(domain) ==
  {tg \in UNION {[D -> UNION {TagConfig(t, domain) : t \in TagNames}] :
                   D \in SUBSET TagNames} :
     \A t \in DOMAIN tg : tg[t] \in TagConfig(t, domain)}

TagLists == UNION {[1..n -> TagNames] : n \in 0..MaxTags}

\* A call of get_event_arguments on one of the inputs.
IsGetEventArgumentsCall(c) ==
  \E domain \in Domains :
    \E tags \in TagConfigs(domain), event_tags \in TagLists,
       from_event \in {<<>>} \cup {(domain :> m) : m \in LayerArgs("event")},
       output_args \in LayerArgs("output") :
      c = [fn |-> "get_event_arguments",
           config |-> [tags |-> tags],
           event |-> [tags |-> event_tags] @@ from_event,
           output_args |-> output_args,
           domain |-> domain]

\* A call of get_event_arguments returns.
GetEventArguments ==
  /\ fn_call # <<>>
  /\ fn_call.fn = "get_event_arguments"
  /\ fn_result = <<>>
  /\ fn_result' = <<get_event_arguments(fn_call.config, fn_call.event,
                                        fn_call.output_args, fn_call.domain)>>
  /\ UNCHANGED <<fn_call, svars, cvars, lvars>>

\* CONFIG_SCHEMA_LIGHT_ATTR: the range of breath_length.
MinBreathLength == 2
MaxBreathLength == 10

\* A construction of a BreathingLightAction on one of the inputs: a light
\* or a light that stands for several, a length and a breath_length in
\* whole seconds.
IsBreathingLightActionCall(c) ==
  \E entity_id \in {"l1", "lg"}, length \in 0..MaxLength,
     breath_length \in MinBreathLength..MaxBreathLength :
    c = [fn |-> "BreathingLightAction", entity_id |-> entity_id,
         length |-> length, breath_length |-> breath_length]

\* BreathingLightAction.__init__ returns; the result is _beats_remaining.
NewBreathingLightAction ==
  /\ fn_call # <<>>
  /\ fn_call.fn = "BreathingLightAction"
  /\ fn_result = <<>>
  /\ fn_result' = <<beats_remaining(light, fn_call.entity_id, fn_call.length,
                                    fn_call.breath_length)>>
  /\ UNCHANGED <<fn_call, svars, cvars, lvars>>

\* The entity ids and the priorities of the entries of a call of a factory.
LightIds == LightEntities \cup DOMAIN underlying_light_entities
EntryPriorityValues == {5, 60}
ServicePriority == 5

\* A call of _create_light_actions on the matched outputs of an event: up
\* to MaxEntries light entries of one entity each, with an action that has a
\* class or with "interrupt", which has none.
IsCreateLightActionsCall(c) ==
  \E n \in 0..MaxEntries :
    \E ids \in [1..n -> LightIds], acts \in [1..n -> {"turn_on", "interrupt"}] :
      c = [fn |-> "create_light_actions",
           outputs |->
             [sonos |-> <<>>,
              light |-> [i \in 1..n |->
                           [entities |-> <<ids[i]>>, action |-> acts[i],
                            finish_action |-> "none", priority |-> 10]],
              notify |-> <<>>, mqtt |-> <<>>]]

\* _create_light_actions returns; the result is light_actions.
CreateLightActions ==
  /\ fn_call # <<>>
  /\ fn_call.fn = "create_light_actions"
  /\ fn_result = <<>>
  /\ fn_result' = <<create_light_actions(fn_call.outputs, 1, <<>>, light).made>>
  /\ UNCHANGED <<fn_call, svars, cvars, lvars>>

\* A call of _create_sonos_actions: up to MaxEntries sonos entries of one
\* entity each.
IsCreateSonosActionsCall(c) ==
  \E n \in 0..MaxEntries :
    \E ids \in [1..n -> SonosEntities],
       acts \in [1..n -> {"speak", "media_play", "interrupt"}],
       prios \in [1..n -> EntryPriorityValues] :
      c = [fn |-> "create_sonos_actions",
           outputs |->
             [sonos |-> [i \in 1..n |->
                           [entities |-> <<ids[i]>>, action |-> acts[i],
                            chime |-> FALSE, args |-> "a",
                            priority |-> prios[i]]],
              light |-> <<>>, notify |-> <<>>, mqtt |-> <<>>]]

\* SONOS_GROUP_IGNORE_KEYS
SONOS_GROUP_IGNORE_KEYS == {"entities", "volume", "priority"}

\* Resolved arguments of a sonos entry, but for its entities: two that
\* differ in volume and priority only, and others that differ from the
\* first in the arguments of the call, in the chime, in the action.
GroupingArguments ==
  {[action |-> "speak", chime |-> FALSE, args |-> "a", volume |-> 1, priority |-> 5],
   [action |-> "speak", chime |-> FALSE, args |-> "a", volume |-> 2, priority |-> 60],
   [action |-> "speak", chime |-> FALSE, args |-> "b", volume |-> 1, priority |-> 5],
   [action |-> "speak", chime |-> TRUE, args |-> "a", volume |-> 1, priority |-> 5],
   [action |-> "media_play", chime |-> FALSE, args |-> "a", volume |-> 1, priority |-> 5],
   [action |-> "interrupt", chime |-> FALSE, args |-> "a", volume |-> 1, priority |-> 5]}

\* A call of _create_sonos_actions: up to MaxEntries sonos entries of one
\* entity each, with the resolved arguments above.
IsSonosGroupingCall(c) ==
  \E n \in 0..MaxEntries :
    \E ids \in [1..n -> SonosEntities], arguments \in [1..n -> GroupingArguments] :
      c = [fn |-> "create_sonos_actions",
           outputs |->
             [sonos |-> [i \in 1..n |->
                           [entities |-> <<ids[i]>>, action |-> arguments[i].action,
                            chime |-> arguments[i].chime, args |-> arguments[i].args,
                            volume |-> arguments[i].volume,
                            priority |-> arguments[i].priority]],
              light |-> <<>>, notify |-> <<>>, mqtt |-> <<>>]]

\* _create_sonos_actions returns; the result is sonos_actions.
CreateSonosActions ==
  /\ fn_call # <<>>
  /\ fn_call.fn = "create_sonos_actions"
  /\ fn_result = <<>>
  /\ fn_result' = <<create_sonos_actions(fn_call.outputs, 1)>>
  /\ UNCHANGED <<fn_call, svars, cvars, lvars>>

\* (mutant) add() with line 190 as "force = settings[force]": the setting of
\* the last matched output.
add_scan_last_force(outputs, priorities, force) ==
  IF outputs = <<>> THEN [priorities |-> priorities, force |-> force]
  ELSE [priorities |->
          priorities \cup UNION {EntryPriorities(outputs[i]) : i \in DOMAIN outputs},
        force |-> outputs[Len(outputs)].force]

\* add(), lines 182-198: the loop over the matched outputs, from the
\* priorities and the force gathered so far.
RECURSIVE add_scan(_, _, _)
add_scan(outputs, priorities, force) ==
  IF outputs = <<>> THEN [priorities |-> priorities, force |-> force]
  ELSE add_scan(Tail(outputs),
                priorities \cup EntryPriorities(Head(outputs)),
                force \/ Head(outputs).force)

\* add(), lines 178-203: the tuple appended to _events, if any.
add_tuple(event, outputs) ==
  LET r == add_scan(outputs, {}, FALSE)
  IN IF r.priorities # {}
     THEN <<[priority |-> SetMax(r.priorities), force |-> r.force,
             event |-> event]>>
     ELSE <<>>

\* The entries the sonos and the light domain of a matched output can have
\* in a call of add(), and the entries its notify and mqtt domain can have.
DomainEntries ==
  {<<>>} \cup {<<[priority |-> q]>> : q \in EntryPriorityValues}

ServiceEntries == {<<>>, <<[priority |-> ServicePriority]>>}

\* A call of add(): up to MaxOutputs matched outputs, each with its resolved
\* force setting and at most one entry a domain.
IsAddCall(c) ==
  \E n \in 0..MaxOutputs :
    \E f \in [1..n -> BOOLEAN],
       so \in [1..n -> DomainEntries], li \in [1..n -> DomainEntries],
       no \in [1..n -> ServiceEntries], mq \in [1..n -> ServiceEntries] :
      c = [fn |-> "add",
           outputs |-> [i \in 1..n |->
                          [force |-> f[i], sonos |-> so[i], light |-> li[i],
                           notify |-> no[i], mqtt |-> mq[i]]]]

\* add() returns; the result is what it appended to _events.
AddCall ==
  /\ fn_call # <<>>
  /\ fn_call.fn = "add"
  /\ fn_result = <<>>
  /\ fn_result' = <<add_tuple("event", fn_call.outputs)>>
  /\ UNCHANGED <<fn_call, svars, cvars, lvars>>

InitCalls ==
  /\ InitScheduler
  /\ InitNoObject
  /\ InitNoLocks
  /\ fn_result = <<>>
  /\ \/ /\ light = [e \in LightEntities |-> "off"]
        /\ \/ IsGetEventArgumentsCall(fn_call)
           \/ IsCreateSonosActionsCall(fn_call)
           \/ IsSonosGroupingCall(fn_call)
           \/ IsAddCall(fn_call)
     \/ IsBreathingLightActionCall(fn_call)
     \/ IsCreateLightActionsCall(fn_call)

NextCalls ==
  \/ GetEventArguments
  \/ NewBreathingLightAction
  \/ CreateLightActions
  \/ CreateSonosActions
  \/ AddCall

SpecCalls == InitCalls /\ [][NextCalls]_vars

(***************************************************************************)
(* Properties of get_event_arguments.                                      *)
(***************************************************************************)
\* The layers of a call in increasing precedence: the arguments of the
\* event, those of each of its tags in order, those of the output entry.
Layers(c) ==
  LET tags == c.config["tags"]
      of_tag(t) ==
        IF t \in DOMAIN tags /\ tags[t] # <<>> THEN tags[t][c.domain] ELSE <<>>
  IN <<IF c.domain \in DOMAIN c.event THEN c.event[c.domain] ELSE <<>>>>
     \o [i \in 1..Len(c.event["tags"]) |-> of_tag(c.event["tags"][i])]
     \o <<c.output_args>>

\* C13: the resolved arguments have the keys of the layers and of the
\* defaults of the domain; a key some layer sets has the value of the last
\* layer that sets it, in the order event, tags of the event, output entry;
\* any other key has its default.
C13_ArgumentPrecedence ==
  (fn_result # <<>> /\ fn_call.fn = "get_event_arguments") =>
    LET r == fn_result[1]
        L == Layers(fn_call)
        d == DEFAULTS_MAPPING(fn_call.domain)
        setters(k) == {i \in DOMAIN L : k \in DOMAIN L[i]}
    IN /\ DOMAIN r = DOMAIN d \cup UNION {DOMAIN L[i] : i \in DOMAIN L}
       /\ \A k \in DOMAIN r :
            r[k] = IF setters(k) = {} THEN d[k]
                   ELSE L[SetMax(setters(k))][k]

\* C13, witness: the event sets priority and message, its tag sets message
\* and volume, the output entry sets volume; the result has the priority of
\* the event, the message of the tag, the volume of the output entry and
\* the defaults of the other keys of the domain.
C13_Witness ==
  /\ fn_result # <<>>
  /\ fn_call.fn = "get_event_arguments"
  /\ fn_call.domain = "light"
  /\ fn_call.event = [tags |-> <<"t1">>] @@
                       ("light" :> [priority |-> "event", message |-> "event"])
  /\ "t1" \in DOMAIN fn_call.config["tags"]
  /\ fn_call.config["tags"]["t1"] =
       ("light" :> [message |-> "t1", volume |-> "t1"])
  /\ fn_call.output_args = [volume |-> "output"]
  /\ fn_result[1] = [priority |-> "event", message |-> "t1",
                     volume |-> "output", action |-> "toggle",
                     finish_action |-> "none", length |-> "5"]

(***************************************************************************)
(* Properties of the entity-to-action table and of the captured state.     *)
(***************************************************************************)
\* C14 as stated: an entity is a key of the table if and only if an
\* unfinished action claims it.
C14_KeyIffUnfinishedClaim ==
  \A e \in Entities : e \in DOMAIN entity_to_action <=> Claimants(e) # {}

\* C14 amended: an entity an unfinished action claims is a key of the table,
\* registered to that action; the action registered under a key claims it;
\* and when the controller thread has woken and removed the finished
\* actions, every key is claimed by an unfinished action.
C14_KeyCoversUnfinishedClaim ==
  /\ [](/\ \A e \in Entities : \A i \in Claimants(e) :
             e \in DOMAIN entity_to_action /\ entity_to_action[e] = i
        /\ \A e \in DOMAIN entity_to_action :
             e \in actions[entity_to_action[e]].entities)
  /\ [][(pc = "waiting" /\ pc' = "pass") =>
          \A e \in DOMAIN entity_to_action' :
            ~actions'[entity_to_action'[e]].is_finished]_vars

\* C14, witness: in a pass, a finished action that claimed entities is out
\* of the table and an unfinished one is in it.
C14_Witness ==
  /\ pc = "pass"
  /\ \E i, j \in DOMAIN actions :
       /\ actions[i].is_finished
       /\ actions[i].entities # {}
       /\ i \notin Registered
       /\ ~actions[j].is_finished
       /\ j \in Registered

NoEntries(ev) ==
  /\ Config[ev].sonos = <<>>
  /\ Config[ev].light = <<>>
  /\ Config[ev].notify = <<>>
  /\ Config[ev].mqtt = <<>>

\* C16: a call of add() either appends to the queue an event whose outputs
\* have an entry, or changes nothing: not the queue, the table, the captured
\* state, the actions, the count of reported errors, nor whether the
\* controller thread was notified.
C16_AddWithoutEntriesChangesNothing ==
  [][nadds' = nadds + 1 =>
       \/ /\ Len(events') = Len(events) + 1
          /\ SubSeq(events', 1, Len(events)) = events
          /\ ~NoEntries(events'[Len(events')].event)
       \/ /\ events' = events
          /\ notified' = notified
          /\ pc' = pc
          /\ entity_to_action' = entity_to_action
          /\ captured_global_sonos_state' = captured_global_sonos_state
          /\ captured_light_state' = captured_light_state
          /\ actions' = actions
          /\ gwlog' = gwlog
          /\ app_errors' = app_errors]_vars

\* C16, witness: add() was called, and with the controller thread waiting
\* nothing is queued, nothing was admitted and the thread is not notified.
C16_Witness ==
  /\ nadds > 0
  /\ pc = "waiting"
  /\ events = <<>>
  /\ nadm = 0
  /\ actions = <<>>
  /\ ~notified

(***************************************************************************)
(* Properties of the constructor of BreathingLightAction.                  *)
(***************************************************************************)
\* C17: a breathing action of length L and breath length B starts with
\* 2 * R beats when its light is off and 2 * R + 1 when it is on, where R
\* is the integer nearest to L / B (the even one when two are as near);
\* with L = 5 and B = 2 that is 4 and 5.
C17_BeatsRemaining ==
  (fn_result # <<>> /\ fn_call.fn = "BreathingLightAction") =>
    LET L == fn_call.length
        B == fn_call.breath_length
        on == \E e \in Underlying(fn_call.entity_id) : light[e] = "on"
        dist(R) == IF L >= R * B THEN L - R * B ELSE R * B - L
        nearest == {R \in 0..(L + 1) : \A Q \in 0..(L + 1) : dist(R) <= dist(Q)}
        R == IF Cardinality(nearest) = 1 THEN CHOOSE x \in nearest : TRUE
             ELSE CHOOSE x \in nearest : x % 2 = 0
    IN /\ fn_result[1] = 2 * R + (IF on THEN 1 ELSE 0)
       /\ (L = 5 /\ B = 2) => fn_result[1] = IF on THEN 5 ELSE 4

\* C17, witness: length 5, breath length 2, the light on: 5 beats.
C17_Witness ==
  /\ fn_result = <<5>>
  /\ fn_call.fn = "BreathingLightAction"
  /\ fn_call.length = 5
  /\ fn_call.breath_length = 2
  /\ fn_call.entity_id = "l1"
  /\ light["l1"] = "on"

(***************************************************************************)
(* Properties of the workers of a band.                                    *)
(***************************************************************************)
\* C18: among the actions of one priority of one admitted event, none has
\* started action() while another has not returned from prepare().
C18_ActAfterEveryPrepare ==
  \A i \in DOMAIN actions : \A j \in DOMAIN actions :
    (/\ actions[i].adm = actions[j].adm
     /\ actions[i].priority = actions[j].priority
     /\ actions[i].phase = "acted") => actions[j].phase # "created"

\* C18, witness: a band of two actions, one past action() and the other
\* past prepare() only.
C18_Witness ==
  \E i \in DOMAIN actions : \E j \in DOMAIN actions :
    /\ i # j
    /\ actions[i].adm = actions[j].adm
    /\ actions[i].priority = actions[j].priority
    /\ actions[i].phase = "acted"
    /\ actions[j].phase = "prepared"

(***************************************************************************)
(* Properties of the order in which a pass examines the events.            *)
(***************************************************************************)
\* The tuples of the entries of a pass log.
Tpls(log) == [n \in DOMAIN log |-> Tpl(log[n])]

\* sorted is queue in descending priority, equals in the order of queue.
IsStableDescending(sorted, queue) ==
  /\ Len(sorted) = Len(queue)
  /\ \/ queue = <<>>
     \/ \E f \in Permutations(DOMAIN queue) :
          /\ \A k \in DOMAIN sorted : sorted[k] = queue[f[k]]
          /\ \A k \in DOMAIN sorted : \A l \in DOMAIN sorted :
               k < l =>
                 \/ sorted[k].priority > sorted[l].priority
                 \/ /\ sorted[k].priority = sorted[l].priority
                    /\ f[k] < f[l]

\* C19: a pass starts with the queued events in descending priority, equals
\* in the order add() queued them, and examines them in that order; so of
\* two entries with no force that share an entity, with no forced entry
\* examined between them, the one examined first, when it meets none of its
\* entities in the table, is admitted and the other is postponed.
C19_ExaminedByPriorityThenArrival ==
  /\ [][(pc = "waiting" /\ pc' = "pass") =>
          (passlog' = <<>> /\ IsStableDescending(todo', events))]_vars
  /\ [][(pc = "pass" /\ pc' = "pass") =>
          Tpls(passlog') \o todo' = Tpls(passlog) \o todo]_vars
  /\ [](\A n \in DOMAIN passlog : \A m \in DOMAIN passlog :
          (/\ n < m
           /\ ~passlog[n].force
           /\ ~passlog[m].force
           /\ \A k \in (n + 1)..(m - 1) : ~passlog[k].force
           /\ Touched(passlog[n].event) \cap Touched(passlog[m].event) # {}
           /\ Touched(passlog[n].event) \cap DOMAIN passlog[n].table = {})
          => /\ passlog[n].outcome = "admitted"
             /\ passlog[m].outcome = "postponed"
             /\ passlog[n].priority >= passlog[m].priority)

\* C19, witness: two entries of equal priority and of different events,
\* with no force, share an entity that is free; the one queued first was
\* admitted and its actions were created, the other was postponed and is
\* still queued behind nothing of the first.
C19_Witness ==
  /\ pc = "pass"
  /\ \E n \in DOMAIN passlog : \E m \in DOMAIN passlog :
       /\ n < m
       /\ passlog[n].priority = passlog[m].priority
       /\ passlog[n].event # passlog[m].event
       /\ ~passlog[n].force
       /\ ~passlog[m].force
       /\ Touched(passlog[n].event) \cap Touched(passlog[m].event) # {}
       /\ passlog[n].table = <<>>
       /\ passlog[n].outcome = "admitted"
       /\ ActionsOf(passlog[n].adm) # {}
       /\ passlog[m].outcome = "postponed"
       /\ events = <<Tpl(passlog[m])>>

(***************************************************************************)
(* Properties of the completion of the actions of a sonos group.           *)
(***************************************************************************)
\* C20: no gateway call raises; a sonos action, primary of its group or not,
\* that has run prepare() and action() and has no timer pending is finished.
\* (Only a timer callback or a forced kill completes an action after
\* action() has returned, so one that is not finished here never finishes
\* by itself and its entity stays a key of the table.)
C20_GroupMemberFinishes ==
  \A i \in DOMAIN actions :
    (/\ actions[i].kind \in SonosKinds
     /\ actions[i].phase = "acted"
     /\ actions[i].timer = "none") => actions[i].is_finished

(***************************************************************************)
(* Properties of the members of a sonos group.                             *)
(***************************************************************************)
\* The action of the primary of the group of the sonos action i.
PrimaryOf(i) ==
  {j \in DOMAIN actions : /\ actions[j].adm = actions[i].adm
                          /\ actions[j].kind = actions[i].kind
                          /\ actions[j].entity_id = actions[i].primary}

\* C21: when an entry with no force is admitted, the primary of every
\* sonos group made before it that has a member among the entities of the
\* entry, other than the primary, is finished.
C21_MemberHeldWhilePrimaryUnfinished ==
  \A n \in DOMAIN passlog :
    (~passlog[n].force /\ passlog[n].outcome = "admitted") =>
      \A i \in DOMAIN actions :
        (/\ actions[i].kind \in SonosKinds
         /\ actions[i].adm < passlog[n].adm
         /\ ~is_primary(actions[i])
         /\ actions[i].entity_id \in Touched(passlog[n].event)) =>
          \A j \in PrimaryOf(i) : actions[j].is_finished

(***************************************************************************)
(* Properties of the restore of the global sonos state.                    *)
(***************************************************************************)
\* Nothing is left to run: the controller thread waits and is not notified,
\* no event is queued, every worker has returned, no timer is pending and
\* no action is about to report.
Quiescent ==
  /\ pc = "waiting"
  /\ ~notified
  /\ events = <<>>
  /\ \A i \in DOMAIN actions :
       /\ actions[i].phase = "acted"
       /\ actions[i].timer = "none"
       /\ ~actions[i].reporting

\* C22: no gateway call raises; once nothing is left to run, and so no
\* further sonos event is admitted unless add() is called again, the global
\* sonos state is not held any more: it was restored.
C22_SnapshotRestoredAtRest ==
  Quiescent => ~captured_global_sonos_state

(***************************************************************************)
(* Properties of the factories of one event.                               *)
(***************************************************************************)
\* The call is one of a factory of the domain, and it has returned.
FactoryReturned(domain) ==
  /\ fn_result # <<>>
  /\ fn_call.fn = (IF domain = "light" THEN "create_light_actions"
                   ELSE "create_sonos_actions")

\* The physical entities an (entity_id, arguments) pair of a domain stands for.
Physical(domain, p) ==
  IF domain = "light" THEN Underlying(p.entity_id) ELSE {p.entity_id}

\* The class of the action of a pair, "None" when it has none.
ClassOf(domain, p) ==
  IF domain = "light" THEN LIGHT_ACTION_MAP(p.arguments.action)
  ELSE SONOS_ACTION_MAP(p.arguments.action)

KeysOf(i) == {e \in DOMAIN entity_to_action : entity_to_action[e] = i}

\* C24: an action is registered under all its entities or under none, and
\* one that is registered under none is finished; a step that takes a key
\* from an action leaves it finished and without any key.
C24_RemovedFinishedAndWhole ==
  /\ [](\A i \in DOMAIN actions :
          \/ KeysOf(i) = actions[i].entities
          \/ KeysOf(i) = {} /\ actions[i].is_finished)
  /\ [][\A i \in DOMAIN actions : \A e \in KeysOf(i) :
          (e \notin DOMAIN entity_to_action' \/ entity_to_action'[e] # i) =>
            /\ actions'[i].is_finished
            /\ \A k \in DOMAIN entity_to_action' : entity_to_action'[k] # i]_vars

\* C24, witness: in a pass, an action made on two entities is finished and
\* both its keys were taken, while another action is registered.
C24_Witness ==
  /\ pc = "pass"
  /\ \E i \in DOMAIN actions :
       /\ Cardinality(actions[i].entities) = 2
       /\ actions[i].is_finished
       /\ KeysOf(i) = {}
       /\ DOMAIN entity_to_action # {}

(***************************************************************************)
(* Properties of the captured light state while the thread waits.          *)
(***************************************************************************)
\* C25: while the controller thread waits, every entity with a captured
\* light state is a key of the table, and every entity registered to a
\* light action has a captured light state.
C25_SnapshotsMatchTableWhenWaiting ==
  pc = "waiting" =>
    /\ DOMAIN captured_light_state \subseteq DOMAIN entity_to_action
    /\ \A e \in DOMAIN entity_to_action :
         actions[entity_to_action[e]].kind \in LightKinds =>
           e \in DOMAIN captured_light_state

\* C25, witness: the thread waits after a pass that dropped the captured
\* state of the entities of a light action that had finished, while other
\* entities are registered.
C25_Witness ==
  /\ pc = "waiting"
  /\ DOMAIN entity_to_action # {}
  /\ \E i \in DOMAIN actions :
       /\ actions[i].kind \in LightKinds
       /\ actions[i].is_finished
       /\ KeysOf(i) = {}
       /\ DOMAIN actions[i].prior_state # {}
       /\ actions[i].entities \cap DOMAIN captured_light_state = {}

(***************************************************************************)
(* Properties of the captured light state across forced preemptions.       *)
(***************************************************************************)
\* C26: a light action made for a forced event gets, for each of its
\* entities that an action killed for the event held, the prior state that
\* action had been given; so along a chain of preemptions every action has
\* the prior state of the first, and no state is captured at a hand-over.
C26_PreemptionKeepsFirstSnapshot ==
  [][\A i \in DOMAIN actions' \ DOMAIN actions :
       actions'[i].kind \in LightKinds =>
         LET entry == passlog[Len(passlog)]
         IN \A e \in actions'[i].entities \cap DOMAIN entry.table :
              LET k == entry.table[e]
              IN (entry.force /\ actions[k].kind \in LightKinds) =>
                   /\ actions'[i].prior_state[e] = actions[k].prior_state[e]
                   /\ captured_light_state'[e] = captured_light_state[e]]_vars

\* C26, witness: a forced event killed a light action that had changed a
\* light, and its own action on that light has the prior state of the
\* killed one, which is not the state the light is in.
C26_Witness ==
  \E n \in DOMAIN passlog : \E k \in passlog[n].killed :
    \E i \in ActionsOf(passlog[n].adm) : \E e \in actions[i].entities :
      /\ passlog[n].force
      /\ actions[k].kind \in LightKinds
      /\ actions[k].phase = "acted"
      /\ e \in actions[k].entities
      /\ actions[i].phase = "created"
      /\ actions[i].prior_state[e] = actions[k].prior_state[e]
      /\ actions[i].prior_state[e] # light[e]

(***************************************************************************)
(* Properties of a speak action with a chime.                              *)
(***************************************************************************)
\* The object is the primary of a speak action that has a chime.
ChimingPrimary ==
  /\ obj # <<>>
  /\ obj[1].kind = "SonosTTSAction"
  /\ is_primary(obj[1])
  /\ obj[1].chime

\* The order of the outbound calls of a chiming primary, step by step: the
\* chime timer is started only by the worker that has played the chime, the
\* text to speech is called only by the callback of the chime timer, the
\* completion timer is started only by that callback after its call, each
\* call is made at most once, and the completion callback is called by a
\* complete_action that finishes the action.
ChimeOrder ==
  ChimingPrimary =>
    /\ (obj'[1].timer = "speak" /\ obj[1].timer # "speak") =>
         (calls["worker"].pc = "chime_set" /\ calls["worker"].chimes = 1)
    /\ (calls'["chime_timer"].speaks # calls["chime_timer"].speaks) =>
         (calls["chime_timer"].pc = "speak_call"
          /\ calls'["chime_timer"].speaks = 1)
    /\ (obj'[1].timer = "complete" /\ obj[1].timer # "complete") =>
         (calls["chime_timer"].pc = "speak_schedule"
          /\ calls["chime_timer"].speaks = 1)
    /\ (obj'[1].callbacks # obj[1].callbacks) =>
         (obj[1].is_finished /\ obj'[1].callbacks = 1)

\* A callback of the chime timer that began when the action was finished
\* calls no text to speech.
NoSpeechAfterComplete ==
  ChimingPrimary =>
    (calls["chime_timer"].late => calls["chime_timer"].speaks = 0)

\* C27: the outbound calls of the primary of a speak action with
\* a chime are made in the order chime, text to speech, Finished; once the
\* action is completed before the chime timer fires, the chime timer is
\* cancelled, that is, pending no longer, and the text to speech is never
\* called.
C27_ChimeTimerCancelledOnComplete ==
  /\ [](ChimingPrimary /\ obj[1].is_finished => obj[1].timer # "speak")
  /\ []NoSpeechAfterComplete
  /\ [][ChimeOrder]_vars

(***************************************************************************)
(* Properties of a breathing light action.                                 *)
(***************************************************************************)
\* The breathing actions that are not finished.
Breathers ==
  {i \in DOMAIN actions : /\ actions[i].kind = "BreathingLightAction"
                          /\ ~actions[i].is_finished}

\* C28: a breathing action that is not preempted toggles its light once a
\* tick, beats_remaining times in all: a tick with beats left toggles the
\* light and takes one beat off, nothing else changes the light or the
\* beats, and the tick that finds no beat left cancels the repeating timer
\* and completes the action; the beats left are even exactly when the light
\* is off, so the light is off when that last tick comes, whether or not it
\* was on at construction.
C28_BreathesThenCompletes ==
  /\ [](\A i \in Breathers :
          (actions[i].beats_remaining % 2 = 0)
            <=> (get_state(light, actions[i].entity_id) = "off"))
  /\ [][\A i \in Breathers :
          LET a == actions[i]
              b == actions'[i]
              now == get_state(light, a.entity_id)
              next == get_state(light', a.entity_id)
          IN /\ (next # now /\ ~b.is_finished) =>
                  /\ a.timer = "breathe"
                  /\ a.beats_remaining > 0
                  /\ b.beats_remaining = a.beats_remaining - 1
                  /\ b.ncalls = a.ncalls + 1
                  /\ b.timer = "breathe"
             /\ (b.beats_remaining # a.beats_remaining) =>
                  (next # now /\ ~b.is_finished)
             /\ (b.is_finished /\ b.reporting) =>
                  /\ a.timer = "breathe"
                  /\ a.beats_remaining = 0
                  /\ now = "off"
                  /\ b.timer = "none"
                  /\ b.callbacks = 1
             /\ (a.timer = "breathe" /\ a.beats_remaining = 0 /\ b # a) =>
                  b.is_finished]_vars

\* C28, witness: a breathing action made on a light that was on has toggled
\* it three times, the beat added included, and completed itself with its
\* restore.
C28_Witness ==
  \E i \in DOMAIN actions :
    /\ actions[i].kind = "BreathingLightAction"
    /\ actions[i].is_finished
    /\ actions[i].finish_action = "restore"
    /\ actions[i].prior_state = [e \in actions[i].entities |-> "on"]
    /\ actions[i].ncalls = 4
    /\ actions[i].callbacks = 1
    /\ get_state(light, actions[i].entity_id) = "on"

(***************************************************************************)
(* Properties of a forced completion of sonos actions.                     *)
(***************************************************************************)
\* The entities of the entry examined last: the hard_kill_entities of the
\* completions it forces.
ForcedEntities(entry) == get_entities_involved_in_outputs(Config[entry.event])

\* The sonos actions complete_action is called on for a forced entry.
ForcedSonos(entry) ==
  {k \in actions_to_kill(entry.table, ForcedEntities(entry)) :
     actions[k].kind \in SonosKinds}

\* The step is the examination of a forced entry.
ForcedStep ==
  /\ Len(passlog') = Len(passlog) + 1
  /\ passlog'[Len(passlog')].force

\* The step makes the media_stop call of action p.
StopIssued(p) == actions'[p].ncalls = actions[p].ncalls + 1

\* C29 (as stated): when the completion of sonos actions is forced, the
\* media_stop call of their group is made if and only if the entity of the
\* group's primary is among the forced entities; a member that is not the
\* primary is completed with no call of its own.
C29_StopIffPrimaryForced ==
  [][ForcedStep =>
       LET entry == passlog'[Len(passlog')]
       IN \A k \in ForcedSonos(entry) : \A p \in PrimaryOf(k) :
            /\ StopIssued(p) <=> (actions[p].entity_id \in ForcedEntities(entry))
            /\ (k # p) => (actions'[k].ncalls = actions[k].ncalls
                           /\ actions'[k].is_finished)]_vars

\* C29 (amended): when the completion of sonos actions is forced, the
\* media_stop call of their group is made, once, if and only if the entity
\* of the group's primary is among the forced entities and the primary's
\* action is not finished; a member that is not the primary is completed
\* with no call of its own, and a primary that is not among the forced
\* entities is left as it is.
C29_StopIffUnfinishedPrimaryForced ==
  [][ForcedStep =>
       LET entry == passlog'[Len(passlog')]
       IN \A k \in ForcedSonos(entry) : \A p \in PrimaryOf(k) :
            /\ StopIssued(p) <=> (/\ actions[p].entity_id \in ForcedEntities(entry)
                                  /\ ~actions[p].is_finished)
            /\ actions'[p].ncalls \in {actions[p].ncalls, actions[p].ncalls + 1}
            /\ (k # p) => (actions'[k].ncalls = actions[k].ncalls
                           /\ actions'[k].is_finished)
            /\ (actions[p].entity_id \notin ForcedEntities(entry)) =>
                 (actions'[p] = actions[p])]_vars

\* C29, witness: a forced entry killed a member of a group whose primary is
\* not among its entities; the primary plays on, its completion timer
\* pending, having made its calls of prepare and action and no other.
C29_Witness ==
  \E n \in DOMAIN passlog : \E k \in passlog[n].killed : \E p \in PrimaryOf(k) :
    /\ passlog[n].force
    /\ actions[k].kind \in SonosKinds
    /\ k # p
    /\ actions[k].is_finished
    /\ actions[p].entity_id \notin ForcedEntities(passlog[n])
    /\ ~actions[p].is_finished
    /\ actions[p].timer = "complete"
    /\ actions[p].ncalls = PrepareCalls(actions[p]) + 1

(***************************************************************************)
(* Properties of the primary of a sonos group.                             *)
(***************************************************************************)
\* The sonos entries of the call of _create_sonos_actions, of one entity
\* each.
CalledEntries == fn_call.outputs.sonos

\* The entries that visit their entity first, in configuration order.
FirstVisits ==
  {i \in DOMAIN CalledEntries :
     \A j \in 1..(i - 1) :
       CalledEntries[j].entities # CalledEntries[i].entities}

\* The group of entry i: the first visits with its arguments, but for the
\* entities and the priority.
GroupOf(i) ==
  {j \in FirstVisits :
     filter_sonos_args(CalledEntries[j]) = filter_sonos_args(CalledEntries[i])}

\* The member of the group of entry i that has the highest priority, and
\* of those that have it the first in configuration order.
FirstHighest(i) ==
  CHOOSE m \in GroupOf(i) :
    /\ \A j \in GroupOf(i) : CalledEntries[j].priority <= CalledEntries[m].priority
    /\ \A j \in GroupOf(i) :
         CalledEntries[j].priority = CalledEntries[m].priority => m <= j

\* C30: the primary of every action _create_sonos_actions returns is the
\* entity of the member of its group that has the highest priority, the
\* first of them in configuration order when several have it.
C30_PrimaryIsFirstHighest ==
  (fn_call # <<>> /\ fn_call.fn = "create_sonos_actions" /\ fn_result # <<>>) =>
    \A n \in DOMAIN fn_result[1] :
      \A i \in FirstVisits :
        (CalledEntries[i].entities[1] = fn_result[1][n].entity_id) =>
          (fn_result[1][n].primary
             = CalledEntries[FirstHighest(i)].entities[1])

\* C30, witness: a group of three in which the second and the third member
\* have the highest priority and the first a lower one; the second is the
\* primary of all three.
C30_Witness ==
  /\ fn_call # <<>>
  /\ fn_call.fn = "create_sonos_actions"
  /\ fn_result # <<>>
  /\ Len(fn_result[1]) = 3
  /\ GroupOf(1) = {1, 2, 3}
  /\ CalledEntries[1].priority < CalledEntries[2].priority
  /\ CalledEntries[2].priority = CalledEntries[3].priority
  /\ \A n \in 1..3 : fn_result[1][n].primary = CalledEntries[2].entities[1]

(***************************************************************************)
(* Properties of add().                                                    *)
(***************************************************************************)
\* The priorities of every entry of every matched output of the call.
CalledPriorities ==
  {q \in EntryPriorityValues :
     \E i \in DOMAIN fn_call.outputs :
       \E d \in {fn_call.outputs[i].sonos, fn_call.outputs[i].light,
                 fn_call.outputs[i].notify, fn_call.outputs[i].mqtt} :
         \E j \in DOMAIN d : d[j].priority = q}

\* C31: the tuple add() appends has the greatest priority of the entries
\* of the matched outputs, and its force is set exactly when the force
\* setting of one matched output is; with no entry nothing is appended.
C31_MaxPriorityAnyForce ==
  (fn_call # <<>> /\ fn_call.fn = "add" /\ fn_result # <<>>) =>
    IF CalledPriorities = {} THEN fn_result[1] = <<>>
    ELSE /\ Len(fn_result[1]) = 1
         /\ fn_result[1][1].priority \in CalledPriorities
         /\ \A q \in CalledPriorities : q <= fn_result[1][1].priority
         /\ fn_result[1][1].force
              <=> (\E i \in DOMAIN fn_call.outputs : fn_call.outputs[i].force)

\* C31, witness: of two matched outputs the first sets force and has the
\* entry of the lower priority; the tuple has the priority of the second
\* and the force of the first.
C31_Witness ==
  /\ fn_call # <<>>
  /\ fn_call.fn = "add"
  /\ fn_result # <<>>
  /\ Len(fn_call.outputs) = 2
  /\ fn_call.outputs[1].force
  /\ ~fn_call.outputs[2].force
  /\ EntryPriorities(fn_call.outputs[1]) = {5}
  /\ EntryPriorities(fn_call.outputs[2]) = {60}
  /\ fn_result[1] = <<[priority |-> 60, force |-> TRUE, event |-> "event"]>>

(***************************************************************************)
(* Properties of the completion callback and of the shared tables.         *)
(***************************************************************************)
\* The tables of the controller but for the queue.
Tables ==
  <<entity_to_action, captured_global_sonos_state, captured_light_state>>

\* The step is one of the controller thread, which holds _cv in a pass: it
\* wakes, or it goes on in its pass.
ControllerStep ==
  \/ pc = "waiting" /\ pc' = "pass"
  \/ pc = "pass" /\ (todo' # todo \/ cur' # cur \/ pc' # pc)

\* The step is the completion callback of an action, called by a thread
\* other than the controller's.
CallbackStep ==
  \E i \in DOMAIN actions : actions[i].reporting /\ ~actions'[i].reporting

\* C32: the completion callback of an action notifies the controller and
\* changes neither the queue of events nor the table of entities nor a
\* captured state; the table and the captured states change only in a step
\* of the controller thread holding _cv, and the queue only in such a step
\* or in add(), which takes _cv while the controller does not hold it.
C32_CallbackOnlyNotifies ==
  [][/\ CallbackStep =>
          (notified' /\ events' = events /\ Tables' = Tables /\ pc' = pc)
     /\ (Tables' # Tables) => ControllerStep
     /\ (events' # events) =>
          \/ ControllerStep
          \/ nadds' = nadds + 1 /\ pc \in {"init", "waiting"} /\ pc' = pc
                /\ Tables' = Tables]_vars

\* C32, witness: an action that finished by itself has called back; the
\* controller is notified and not yet awake, and the action still has its
\* key and the captured state of its light.
C32_Witness ==
  \E i \in DOMAIN actions : \E e \in DOMAIN entity_to_action :
    /\ entity_to_action[e] = i
    /\ actions[i].is_finished
    /\ actions[i].callbacks = 1
    /\ ~actions[i].reporting
    /\ e \in DOMAIN captured_light_state
    /\ notified
    /\ pc = "waiting"

(***************************************************************************)
(* Properties of the calls of prepare() and action().                      *)
(***************************************************************************)
\* The most actions that are ever created: three an event.
MaxActions == 3 * MaxAdds

\* C33: prepare() and action() are called once each on every action made
\* for an admitted event, action() after prepare() has returned: an action
\* is made with neither called, its phase only ever goes from created to
\* prepared and from prepared to acted, and it is acted in the end.
C33_PrepareOnceThenActOnce ==
  /\ [][/\ \A i \in DOMAIN actions :
             \/ actions'[i].phase = actions[i].phase
             \/ actions[i].phase = "created" /\ actions'[i].phase = "prepared"
             \/ actions[i].phase = "prepared" /\ actions'[i].phase = "acted"
        /\ \A i \in DOMAIN actions' \ DOMAIN actions :
             actions'[i].phase = "created"]_vars
  /\ \A i \in 1..MaxActions :
       [](i \in DOMAIN actions
            => <>(i \in DOMAIN actions /\ actions[i].phase = "acted"))

\* C33, witness: every action of two admitted events is acted, one of them
\* finished without a call to the gateway.
C33_Witness ==
  /\ nadm = 2
  /\ Len(actions) >= 2
  /\ \A i \in DOMAIN actions : actions[i].phase = "acted"
  /\ \E i \in DOMAIN actions :
       actions[i].is_finished /\ actions[i].callbacks = 1 /\ actions[i].ncalls = 0

(***************************************************************************)
(* Properties of the gateway calls of a finished action.                   *)
(***************************************************************************)
\* The calls to the gateway a thread has made in its call: chime, text to
\* speech, media stop, and the lights its finish policy was applied to.
OutboundCalls(k) == k.chimes + k.speaks + k.stops + Cardinality(k.policy)

\* C34: an action that is finished makes no call to the gateway: when the
\* only calls of complete_action are the forced ones of the controller, no
\* step of a thread that makes a gateway call is taken on a finished action.
C34_NoCallOnceFinished ==
  [][\A c \in DOMAIN calls :
       (/\ started["timer"] = 0
        /\ c \in DOMAIN calls'
        /\ OutboundCalls(calls'[c]) > OutboundCalls(calls[c]))
         => ~obj[1].is_finished]_vars

(***************************************************************************)
(* Properties of the timers of a finished action.                          *)
(***************************************************************************)
\* C35: a finished action has no timer pending, neither its completion
\* timer nor its chime timer nor its breathing timer, also when the only
\* calls of complete_action are the forced ones of the controller and they
\* interleave with action() or with the callback of the chime timer.
C35_NoTimerOnceFinished ==
  (obj # <<>> /\ started["timer"] = 0 /\ obj[1].is_finished)
    => obj[1].timer = "none"

(***************************************************************************)
(* C36: an exception in the pass of the controller thread.                 *)
(***************************************************************************)
\* C36: an exception raised while the controller thread creates or starts the
\* actions of an event, or captures or restores the snapshot, does not stop
\* the loop: once it has been reported the thread is still waiting or in a
\* pass, so that what is added later is examined and completions are cleaned.
C36_LoopSurvivesException ==
  app_errors > 0 => pc \in {"waiting", "pass"}

(***************************************************************************)
(* C37: wake-ups of the controller thread.                                 *)
(***************************************************************************)
\* C37: no wake-up is lost.  While the controller thread waits with no
\* notification pending, every queued event has been seen by a pass: the
\* events are exactly the tuples the last pass postponed, and a finished
\* action still in the table is about to report.  That covers an event added
\* before the first wait of the thread.
C37_NoLostWakeup ==
  (pc = "waiting" /\ ~notified) =>
    /\ SortedDesc(events) = lastpass
    /\ \A e \in DOMAIN entity_to_action :
         actions[entity_to_action[e]].is_finished
           => actions[entity_to_action[e]].reporting

(***************************************************************************)
(* C38: no deadlock over _cv and the locks of the actions.                 *)
(***************************************************************************)
\* The thread t cannot go on before another has: it wants a lock that is
\* held and that it cannot acquire, or it joins a thread that still runs.
Blocked(t) ==
  /\ Running(t)
  /\ \/ /\ Instr(t).op = "acq" \/ (Instr(t).op = "wake" /\ signalled)
        /\ ~can_acquire(Instr(t).lock, t)
     \/ /\ Instr(t).op = "join"
        /\ Running(Instr(t).lock)

\* The thread a blocked thread waits for.
WaitsFor(t) ==
  IF Instr(t).op = "join" THEN Instr(t).lock ELSE holder[Instr(t).lock]

\* From t, following who waits for whom, a thread that is not blocked is
\* met within n steps.
RECURSIVE WaitEnds(_, _)
WaitEnds(t, n) ==
  IF ~Blocked(t) THEN TRUE
  ELSE IF n = 0 THEN FALSE
  ELSE WaitEnds(WaitsFor(t), n - 1)

NoWaitCycle == \A t \in Threads : WaitEnds(t, Cardinality(Threads))

\* C38: the controller thread (which holds _cv for the whole pass while it
\* calls is_finished and the forced complete_action), the workers, the timer
\* thread and the callers of add() never wait for each other in a cycle, and
\* the controller thread, whenever it is in a pass, gets back to its wait.
C38_NoDeadlock ==
  /\ []NoWaitCycle
  /\ [](~Waiting("controller") => <>Waiting("controller"))

\* The controller, in its pass with _cv held, waits for the lock of a1 that
\* the timer thread holds in complete_action, while add() waits for _cv.
C38_Witness ==
  /\ Blocked("controller") /\ WaitsFor("controller") = "timer"
  /\ Blocked("caller") /\ WaitsFor("caller") = "controller"
  /\ holder["cv"] = "controller"

(***************************************************************************)
(* C39: which sonos entries form one group.                                *)
(***************************************************************************)
\* The resolved arguments of entries i and j are equal on every key but the
\* ignored ones.
EqualButIgnored(i, j) ==
  LET a == CalledEntries[i]
      b == CalledEntries[j]
  IN /\ DOMAIN a \ SONOS_GROUP_IGNORE_KEYS = DOMAIN b \ SONOS_GROUP_IGNORE_KEYS
     /\ \A k \in DOMAIN a \ SONOS_GROUP_IGNORE_KEYS : a[k] = b[k]

\* The primary entry i receives: that of the action made for its entity.
ReceivedPrimary(i) ==
  {fn_result[1][n].primary :
     n \in {m \in DOMAIN fn_result[1] :
              fn_result[1][m].entity_id = CalledEntries[i].entities[1]}}

\* After a call of _create_sonos_actions.
SonosActionsCreated ==
  fn_call # <<>> /\ fn_call.fn = "create_sonos_actions" /\ fn_result # <<>>

\* C39 as stated: two sonos entries of one event receive the same primary if
\* and only if their resolved arguments are equal on every key other than
\* the entities, the volume and the priority.
C39_SamePrimaryIffEqualArguments ==
  SonosActionsCreated =>
    \A i, j \in DOMAIN CalledEntries :
      (i # j) =>
        ((ReceivedPrimary(i) # {} /\ ReceivedPrimary(i) = ReceivedPrimary(j))
           <=> EqualButIgnored(i, j))

\* The entries that make an action: the first of the event to name their
\* entity, with an action other than interrupt.
MakingEntries ==
  {i \in FirstVisits : SONOS_ACTION_MAP(CalledEntries[i].action) # "None"}

\* C39, amended: two sonos entries of one event that make an action each
\* receive one primary, and the same one if and only if their resolved
\* arguments are equal on every key other than the entities, the volume and
\* the priority.
C39_MakingEntriesSamePrimaryIffEqualArguments ==
  SonosActionsCreated =>
    \A i, j \in MakingEntries :
      /\ Cardinality(ReceivedPrimary(i)) = 1
      /\ (ReceivedPrimary(i) = ReceivedPrimary(j)) <=> EqualButIgnored(i, j)

\* C39, witness: three entries that make an action; the first two differ in
\* volume and priority only and share a primary, the third differs from
\* them in the arguments of the call and has its own.
C39_Witness ==
  /\ SonosActionsCreated
  /\ MakingEntries = {1, 2, 3}
  /\ \A i \in MakingEntries : "volume" \in DOMAIN CalledEntries[i]
  /\ CalledEntries[1].volume # CalledEntries[2].volume
  /\ CalledEntries[1].priority # CalledEntries[2].priority
  /\ EqualButIgnored(1, 2)
  /\ ReceivedPrimary(1) = ReceivedPrimary(2)
  /\ CalledEntries[3].args # CalledEntries[1].args
  /\ CalledEntries[3].action = CalledEntries[1].action
  /\ ReceivedPrimary(3) # ReceivedPrimary(1)

====
